---------------------------- MODULE Spec2Model ----------------------------
(***************************************************************************)
(* CommunityMech literature-evidence tooling.                              *)
(*                                                                         *)
(* Character strings of the Python code are sequences of one-character     *)
(* strings, so that prefix tests, replacements, regular-expression         *)
(* matches and substring searches are computed character by character as   *)
(* the code computes them.  Python's None is the one-element sequence      *)
(* <<"None">>, which no character string equals.                           *)
(*                                                                         *)
(*   SpecRef      scripts/fix_reference_formats.py  fix_reference and      *)
(*                scripts/curate_evidence_with_pdfs.py                     *)
(*                validate_reference_format                                *)
(*   SpecSnippet  communitymech/literature.py  validate_evidence_snippet   *)
(*   Spec         communitymech/literature.py  LiteratureFetcher:          *)
(*                fetch_paper over the on-disk cache and the network       *)
(*   SpecSuggest  scripts/intelligent_snippet_fixer.py                     *)
(*                suggest_snippets_for_evidence                            *)
(*   SpecCurate   scripts/curate_evidence_with_pdfs.py  EvidenceCurator:   *)
(*                fetch_and_validate_evidence and _audit_evidence_item     *)
(*   SpecValidator  communitymech/validators/reference_validator.py        *)
(*                ReferenceValidator.validate_yaml_file                    *)
(*   SpecFixFile  scripts/fix_reference_formats.py  fix_yaml_file          *)
(*   SpecAudit    scripts/curate_evidence_with_pdfs.py  EvidenceCurator:   *)
(*                the counters over a sequence of _audit_evidence_item     *)
(*   SpecWorkflow scripts/intelligent_snippet_fixer.py                     *)
(*                interactive_fix_workflow, interactive and auto-approve,  *)
(*                one step per pass of its loop and per input() wait       *)
(*   SpecBatch    scripts/batch_snippet_fixer.py  process_files_batch,     *)
(*                one step per file, per workflow step and per pause       *)
(***************************************************************************)
EXTENDS Integers, Sequences, FiniteSets, TLC

VARIABLES
    \* ---- reference normalisation (SpecRef)
    ref,          \* the reference string of one evidence item (ev['reference'])
    original,     \* the reference string as first read from the YAML file
    changed,      \* was_changed of the last fix_reference call
    runs,         \* number of fix_reference passes applied to ref
    firstFix,     \* ref after the first fix_reference pass
    vrf,          \* last result of validate_reference_format(ref), or NoCall
    \* ---- snippet validation (SpecSnippet)
    snippet,      \* snippet argument
    abstract,     \* abstract (source text) argument
    verdict,      \* "none" before the call, then "valid" / "invalid"
    \* ---- literature fetcher (Spec)
    cache,        \* cache_dir: file name -> file content
    netTotal,     \* reference string -> fetch_paper calls for it that went to the network
    firstResult,  \* reference string -> result of its first fetch_paper call
    keyOf,        \* reference string -> cache file its fetch_paper call addresses
    last,         \* what the last fetch_paper call did
    nCalls,       \* fetch_paper calls made so far
    \* ---- snippet suggestions (SpecSuggest)
    sug,          \* what the last suggest_snippets_for_evidence call did
    \* ---- evidence curator (SpecCurate, SpecAudit)
    cur,          \* what the last call of the evidence curator did
    \* ---- reference validator (SpecValidator)
    val,          \* the validator, its file and what its last validate_yaml_file did
    \* ---- the fixers over the files of kb/communities
    fx,           \* the reference-format fixer: the directory and its last fix_yaml_file
    wf,           \* the snippet fixer: the directory, the terminal and the
                  \* interactive_fix_workflow call in progress or last ended
    bat           \* the batch snippet fixer: its process_files_batch call

refVars   == <<ref, original, changed, runs, firstFix, vrf>>
snipVars  == <<snippet, abstract, verdict>>
fetchVars == <<cache, netTotal, firstResult, keyOf, last, nCalls>>
sugVars   == <<sug>>
curVars   == <<cur>>
valVars   == <<val>>
toolVars  == <<fx, wf, bat>>
laterVars == <<sugVars, curVars, valVars, toolVars>>
vars      == <<refVars, snipVars, fetchVars, laterVars>>

-----------------------------------------------------------------------------
(* Python values and str methods *)

None == <<"None">>

\* Python truthiness of an Optional[str]: None and "" are falsy.
Truthy(s) == s # None /\ s # <<>>

Whitespace == {" ", "\n", "\t", "\r", "\f"}
Digits == {"0", "1", "2", "3", "4", "5", "6", "7", "8", "9"}
DigitSeq == <<"0", "1", "2", "3", "4", "5", "6", "7", "8", "9">>

Min(a, b) == IF a <= b THEN a ELSE b

\* s[n:]
Drop(s, n) == SubSeq(s, n + 1, Len(s))

\* s[:n]
Take(s, n) == SubSeq(s, 1, Min(n, Len(s)))

\* s.startswith(p)
StartsWith(s, p) == Len(s) >= Len(p) /\ SubSeq(s, 1, Len(p)) = p

\* s.isdigit(): non-empty and every character a digit
isdigit(s) == s # <<>> /\ \A i \in 1..Len(s) : s[i] \in Digits

\* sub in s
Contains(s, sub) ==
    \/ sub = <<>>
    \/ \E i \in 0..(Len(s) - Len(sub)) :
          s[i + 1] = sub[1] /\ SubSeq(s, i + 1, i + Len(sub)) = sub

\* sub occurs in s at position i
StartsAt(s, i, sub) ==
    \/ sub = <<>>
    \/ /\ i + Len(sub) - 1 <= Len(s)
       /\ s[i] = sub[1]
       /\ SubSeq(s, i, i + Len(sub) - 1) = sub

\* s[i-1:].replace(old, new), old not empty: the leftmost occurrence from i on is
\* replaced, then the search goes on behind it
RECURSIVE ReplaceFrom(_, _, _, _)
ReplaceFrom(s, i, old, new) ==
    LET P == {p \in i..(Len(s) - Len(old) + 1) : StartsAt(s, p, old)}
    IN  IF P = {} THEN SubSeq(s, i, Len(s))
        ELSE LET p == CHOOSE x \in P : \A y \in P : x <= y
             IN  SubSeq(s, i, p - 1) \o new \o ReplaceFrom(s, p + Len(old), old, new)

\* s.replace(old, new): every non-overlapping occurrence, left to right
Replace(s, old, new) == ReplaceFrom(s, 1, old, new)

RECURSIVE LStrip(_)
LStrip(s) == IF s # <<>> /\ s[1] \in Whitespace THEN LStrip(Drop(s, 1)) ELSE s

RECURSIVE RStrip(_)
RStrip(s) ==
    IF s # <<>> /\ s[Len(s)] \in Whitespace THEN RStrip(Take(s, Len(s) - 1)) ELSE s

\* s.strip()
Strip(s) == RStrip(LStrip(s))

UpperAlpha == <<"A", "B", "C", "D", "E", "F", "G", "H", "I", "J", "K", "L", "M",
                "N", "O", "P", "Q", "R", "S", "T", "U", "V", "W", "X", "Y", "Z">>
LowerAlpha == <<"a", "b", "c", "d", "e", "f", "g", "h", "i", "j", "k", "l", "m",
                "n", "o", "p", "q", "r", "s", "t", "u", "v", "w", "x", "y", "z">>

UpperSet == {UpperAlpha[i] : i \in 1..Len(UpperAlpha)}
LowerOf ==
    [c \in UpperSet |-> LowerAlpha[CHOOSE i \in 1..Len(UpperAlpha) : UpperAlpha[i] = c]]

LowerChar(c) == IF c \in UpperSet THEN LowerOf[c] ELSE c

\* s.lower()
Lower(s) == SubSeq([i \in 1..Len(s) |-> LowerChar(s[i])], 1, Len(s))

\* first position from i on that holds no character of C (Len(s) + 1 if none)
RECURSIVE SkipWhile(_, _, _)
SkipWhile(s, i, C) ==
    IF i <= Len(s) /\ s[i] \in C THEN SkipWhile(s, i + 1, C) ELSE i

\* first position from i on that holds a character of C (Len(s) + 1 if none)
RECURSIVE SkipUntil(_, _, _)
SkipUntil(s, i, C) ==
    IF i <= Len(s) /\ s[i] \notin C THEN SkipUntil(s, i + 1, C) ELSE i

\* s.split(): the words of s
RECURSIVE Words(_)
Words(s) ==
    LET t == LStrip(s)
        e == SkipUntil(t, 1, Whitespace)
    IN  IF t = <<>> THEN <<>>
        ELSE <<SubSeq(t, 1, e - 1)>> \o Words(Drop(t, e - 1))

\* " ".join(words)
RECURSIVE JoinWords(_)
JoinWords(ws) ==
    IF ws = <<>> THEN <<>>
    ELSE IF Len(ws) = 1 THEN ws[1]
    ELSE ws[1] \o <<" ">> \o JoinWords(Tail(ws))

\* " ".join(s.split()): runs of whitespace become one blank, the ends are stripped
JoinSplit(s) == JoinWords(Words(s))

-----------------------------------------------------------------------------
(* Reference normalisation *)

sPMIDlc  == <<"p", "m", "i", "d", ":">>
sPMID    == <<"P", "M", "I", "D", ":">>
sDOIuc   == <<"D", "O", "I", ":">>
sDOI     == <<"d", "o", "i", ":">>
sPMC     == <<"P", "M", "C">>
sBioproj == <<"b", "i", "o", "p", "r", "o", "j", "e", "c", "t", ":">>
sDoiOrg  == <<"h", "t", "t", "p", "s", ":", "/", "/", "d", "o", "i", ".", "o", "r", "g", "/">>
sTenDot  == <<"1", "0", ".">>

\* number of leading digits of s
RECURSIVE DigitRun(_)
DigitRun(s) == IF s # <<>> /\ s[1] \in Digits THEN 1 + DigitRun(Drop(s, 1)) ELSE 0

\* re.match(r'^PMC\d+$', s): '$' also matches just before one trailing newline
MatchPMC(s) ==
    /\ StartsWith(s, sPMC)
    /\ LET rest == Drop(s, 3)
           n    == DigitRun(rest)
       IN  n >= 1 /\ (Drop(rest, n) = <<>> \/ Drop(rest, n) = <<"\n">>)

\* re.match(r'^10\.\d+/', s)
MatchBareDoi(s) ==
    /\ StartsWith(s, sTenDot)
    /\ LET rest == Drop(s, 3)
           n    == DigitRun(rest)
       IN  n >= 1 /\ Len(rest) > n /\ rest[n + 1] = "/"

\* re.match(r"^(PMID:|doi:|bioproject:)", s)
MatchSchemaPrefix(s) ==
    StartsWith(s, sPMID) \/ StartsWith(s, sDOI) \/ StartsWith(s, sBioproj)

\* fix_reference without the 'PMID:' that replaces a lowercase prefix: a mutant
fix_reference_dropPrefix(r) ==
    LET r1 == IF StartsWith(r, sPMIDlc) THEN Drop(r, 5) ELSE r
        r2 == IF MatchPMC(r1) THEN sPMID \o r1 ELSE r1
        r3 == IF StartsWith(r2, sDOIuc) THEN sDOI \o Drop(r2, 4) ELSE r2
        r4 == IF MatchBareDoi(r3) THEN sDOI \o r3 ELSE r3
    IN  [ref |-> r4, was_changed |-> r4 # r]

\* fix_reference(ref) -> (fixed_reference, was_changed): four successive ifs
fix_reference(r) ==
    LET r1 == IF StartsWith(r, sPMIDlc) THEN sPMID \o Drop(r, 5) ELSE r
        r2 == IF MatchPMC(r1) THEN sPMID \o r1 ELSE r1
        r3 == IF StartsWith(r2, sDOIuc) THEN sDOI \o Drop(r2, 4) ELSE r2
        r4 == IF MatchBareDoi(r3) THEN sDOI \o r3 ELSE r3
    IN  [ref |-> r4, was_changed |-> r4 # r]

\* EvidenceCurator.validate_reference_format(reference) -> (ok, fix or None).
\* re.match on None is a TypeError: raised, and the call returns nothing.
validate_reference_format(r) ==
    IF r = None THEN [ok |-> FALSE, fix |-> None, raised |-> TRUE]
    ELSE IF ~MatchSchemaPrefix(r)
    THEN IF StartsWith(r, sPMIDlc)
         THEN [ok |-> FALSE, fix |-> sPMID \o Drop(r, 5), raised |-> FALSE]
         ELSE IF StartsWith(r, sDOIuc)
         THEN [ok |-> FALSE, fix |-> sDOI \o Drop(r, 4), raised |-> FALSE]
         ELSE IF MatchBareDoi(r) THEN [ok |-> FALSE, fix |-> sDOI \o r, raised |-> FALSE]
         ELSE IF MatchPMC(r) THEN [ok |-> FALSE, fix |-> sPMID \o r, raised |-> FALSE]
         ELSE [ok |-> FALSE, fix |-> None, raised |-> FALSE]
    ELSE [ok |-> TRUE, fix |-> r, raised |-> FALSE]

-----------------------------------------------------------------------------
(* Snippet validation: difflib.SequenceMatcher(None, a, b).ratio() *)

Max(S) == CHOOSE x \in S : \A y \in S : y <= x

\* SequenceMatcher.__chain_b with autojunk: when b has 200 elements or more,
\* the elements that occur more than len(b) // 100 + 1 times are "popular" and
\* are dropped from b2j
AutojunkLen == 200
Popular(b) ==
    IF Len(b) >= AutojunkLen
    THEN {c \in {b[j] : j \in 1..Len(b)} :
             Cardinality({j \in 1..Len(b) : b[j] = c}) > Len(b) \div 100 + 1}
    ELSE {}

\* newj2len of one row i: for every j in b2j[a[i]], the length of the common
\* block ending at a[i], b[j], one more than the block ending at a[i-1], b[j-1]
\* (the dict is the set of its items <<j, k>>; J2lenGet is j2len.get(j, 0))
J2lenGet(j2len, j) ==
    IF \E p \in j2len : p[1] = j
    THEN (CHOOSE p \in j2len : p[1] = j)[2]
    ELSE 0

NewJ2len(a, b, popular, i, blo, bhi, j2len) ==
    {<<j, J2lenGet(j2len, j - 1) + 1>> :
        j \in {j2 \in blo..(bhi - 1) : b[j2] = a[i] /\ b[j2] \notin popular}}

\* the row's update of (besti, bestj, bestsize): taken at the first j whose
\* block is longer than bestsize, and again only by a still longer one
BestAfterRow(i, blo, bhi, row, best) ==
    LET k == Max({p[2] : p \in row} \cup {0})
    IN  IF k > best[3]
        THEN LET j == CHOOSE j \in blo..(bhi - 1) :
                         /\ <<j, k>> \in row
                         /\ \A j2 \in blo..(j - 1) : <<j2, k>> \notin row
             IN  <<i - k + 1, j - k + 1, k>>
        ELSE best

\* one pass of the loop over i: the row's j2len and the best block so far
RowStep(a, b, popular, i, blo, bhi, st) ==
    LET row == NewJ2len(a, b, popular, i, blo, bhi, st.j2len)
    IN  [j2len |-> row, best |-> BestAfterRow(i, blo, bhi, row, st.best)]

\* the loop over the rows lo .. hi-1 in order, first half then second half;
\* the state the rows start from is read before they run (bestsize is never
\* negative)
RECURSIVE LongestFrom(_, _, _, _, _, _, _, _)
LongestFrom(a, b, popular, lo, hi, blo, bhi, st) ==
    IF st.best[3] < 0 \/ lo >= hi THEN st
    ELSE IF hi - lo = 1 THEN RowStep(a, b, popular, lo, blo, bhi, st)
    ELSE LET mid == (lo + hi) \div 2
         IN  LongestFrom(a, b, popular, mid, hi, blo, bhi,
                         LongestFrom(a, b, popular, lo, mid, blo, bhi, st))

\* the two loops that extend the best block by matching elements on both
\* sides (no element is junk, so the loops over junk never run): the number
\* of equal elements before (i, j) and from (i, j) on
ExtendBack(a, b, i, j, alo, blo) ==
    Max({n \in 0..Min(i - alo, j - blo) :
            \A d \in 1..n : a[i - d] = b[j - d]})

ExtendForward(a, b, i, j, ahi, bhi) ==
    Max({n \in 0..Min(ahi - i, bhi - j) :
            \A d \in 0..(n - 1) : a[i + d] = b[j + d]})

\* the block m = <<i, j, k>>, extended on both sides
Extended(a, b, m, alo, ahi, blo, bhi) ==
    LET back == ExtendBack(a, b, m[1], m[2], alo, blo)
        fwd  == ExtendForward(a, b, m[1] + m[3], m[2] + m[3], ahi, bhi)
    IN  <<m[1] - back, m[2] - back, m[3] + back + fwd>>

\* SequenceMatcher.find_longest_match(alo, ahi, blo, bhi) without junk: the
\* longest block a[i..i+k-1] = b[j..j+k-1] of elements that are not popular;
\* of those the one starting earliest in a, and of those the one starting
\* earliest in b; then extended on both sides.  Indices are 1-based, ahi and
\* bhi exclusive.
find_longest_match(a, b, popular, alo, ahi, blo, bhi) ==
    Extended(a, b,
             LongestFrom(a, b, popular, alo, ahi, blo, bhi,
                         [j2len |-> {}, best |-> <<alo, blo, 0>>]).best,
             alo, ahi, blo, bhi)

\* SequenceMatcher.get_matching_blocks, summed: the longest block, then the
\* same to its left and to its right.  MatchTotalAround: the sum, given the
\* longest block m = <<i, j, k>>.
RECURSIVE MatchTotal(_, _, _, _, _, _, _)
MatchTotalAround(a, b, popular, alo, ahi, blo, bhi, m) ==
    IF m[3] = 0 THEN 0
    ELSE m[3]
         + (IF alo < m[1] /\ blo < m[2]
            THEN MatchTotal(a, b, popular, alo, m[1], blo, m[2]) ELSE 0)
         + (IF m[1] + m[3] < ahi /\ m[2] + m[3] < bhi
            THEN MatchTotal(a, b, popular, m[1] + m[3], ahi, m[2] + m[3], bhi) ELSE 0)

MatchTotal(a, b, popular, alo, ahi, blo, bhi) ==
    MatchTotalAround(a, b, popular, alo, ahi, blo, bhi,
                     find_longest_match(a, b, popular, alo, ahi, blo, bhi))

Matches(a, b) ==
    MatchTotal(a, b, Popular(b), 1, Len(a) + 1, 1, Len(b) + 1)

\* SequenceMatcher.ratio() > 0.95, where ratio = 2.0 * matches / (len(a) + len(b))
\* and 1.0 when both are empty.  0.95 = 19/20, compared exactly.
RatioNum == 19
RatioDen == 20
RatioAbove(a, b) ==
    IF Len(a) + Len(b) = 0 THEN TRUE
    ELSE 2 * Matches(a, b) * RatioDen > RatioNum * (Len(a) + Len(b))

\* validate_evidence_snippet with ratio >= 0.95: a mutant
validate_evidence_snippet_ge(snip, abs) ==
    IF ~Truthy(abs) \/ ~Truthy(snip) THEN FALSE
    ELSE LET sn == Lower(JoinSplit(snip))
             an == Lower(JoinSplit(abs))
         IN  IF Contains(an, sn) THEN TRUE
             ELSE IF Len(sn) + Len(an) = 0 THEN TRUE
             ELSE 2 * Matches(sn, an) * RatioDen >= RatioNum * (Len(sn) + Len(an))

\* validate_evidence_snippet that compares without lower(): a mutant
validate_evidence_snippet_caseSensitive(snip, abs) ==
    IF ~Truthy(abs) \/ ~Truthy(snip) THEN FALSE
    ELSE LET sn == JoinSplit(snip)
             an == JoinSplit(abs)
         IN  IF Contains(an, sn) THEN TRUE
             ELSE IF RatioAbove(sn, an) THEN TRUE
             ELSE FALSE

\* validate_evidence_snippet that tests only the abstract for emptiness: a mutant
validate_evidence_snippet_noSnippetGuard(snip, abs) ==
    IF ~Truthy(abs) \/ snip = None THEN FALSE
    ELSE LET sn == Lower(JoinSplit(snip))
             an == Lower(JoinSplit(abs))
         IN  IF Contains(an, sn) THEN TRUE
             ELSE IF RatioAbove(sn, an) THEN TRUE
             ELSE FALSE

\* LiteratureFetcher.validate_evidence_snippet(snippet, abstract) -> bool
validate_evidence_snippet(snip, abs) ==
    IF ~Truthy(abs) \/ ~Truthy(snip) THEN FALSE
    ELSE LET sn == Lower(JoinSplit(snip))
             an == Lower(JoinSplit(abs))
         IN  IF Contains(an, sn) THEN TRUE
             ELSE IF RatioAbove(sn, an) THEN TRUE
             ELSE FALSE

-----------------------------------------------------------------------------
(* LiteratureFetcher: the cache directory and the network *)

sPmidFile == <<"p", "m", "i", "d", "_">>
sDoiFile  == <<"d", "o", "i", "_">>
sTxt      == <<".", "t", "x", "t">>
sJson     == <<".", "j", "s", "o", "n">>

\* A cache file holds text (write_text / read_text).  A JSON document is held as
\* the dict it denotes: json.loads(json.dumps(m)) = m for a dict of strings.
FileOfText(t) == [text |-> t, json |-> {}]
FileOfJson(m) == [text |-> <<>>, json |-> m]

\* A dict is a set of <<key, value>> pairs; d.get(k) is None for a missing key.
DictGet(d, k) ==
    IF \E p \in d : p[1] = k THEN (CHOOSE p \in d : p[1] = k)[2] ELSE None

\* cache_dir / f"pmid_{pmid}.txt"
PmidCacheFile(pmid) == sPmidFile \o pmid \o sTxt

\* cache_dir / f"doi_{doi.replace('/', '_')}.json"
DoiCacheFile(doi) == sDoiFile \o Replace(doi, <<"/">>, <<"_">>) \o sJson

\* doi.replace("doi:", "").replace("https://doi.org/", "").strip()
CleanDoi(d) == Strip(Replace(Replace(d, sDOI, <<>>), sDoiOrg, <<>>))

\* pmid.replace("PMID:", "").strip()
CleanPmid(p) == Strip(Replace(p, sPMID, <<>>))

\* cache_file.read_text() of a file written by write_text(t): the text is read
\* with universal newlines, so "\r\n" and "\r" come back as "\n"
ReadText(t) == Replace(Replace(t, <<"\r", "\n">>, <<"\n">>), <<"\r">>, <<"\n">>)

\* cache_file.write_text raises FileNotFoundError for a file name that holds a
\* "/": the cache directory has no subdirectories
WriteRaises(file) == Contains(file, <<"/">>)

\* fetch_pubmed_abstract(pmid); resp is what the PubMed request would answer:
\* [ok |-> FALSE] a RequestException (connection error, timeout, HTTP error status,
\* or a body response.json() cannot decode), [ok |-> TRUE, body |-> response.text].
\* raised tells whether the call ends in an exception instead of a return value:
\* the except clause catches every RequestException and nothing else, so the
\* exception of write_text leaves the call.
fetch_pubmed_abstract(c, pmid0, resp) ==
    LET pmid == CleanPmid(pmid0)
        file == PmidCacheFile(pmid)
    IN  IF file \in DOMAIN c
        THEN [result |-> ReadText(c[file].text), cache |-> c, net |-> <<>>,
              file |-> file, hit |-> TRUE, failed |-> FALSE, raised |-> FALSE]
        ELSE IF ~resp.ok
        THEN [result |-> None, cache |-> c, net |-> <<"pubmed">>,
              file |-> file, hit |-> FALSE, failed |-> TRUE, raised |-> FALSE]
        ELSE IF WriteRaises(file)
        THEN [result |-> None, cache |-> c, net |-> <<"pubmed">>,
              file |-> file, hit |-> FALSE, failed |-> FALSE, raised |-> TRUE]
        ELSE [result |-> resp.body, cache |-> (file :> FileOfText(resp.body)) @@ c,
              net |-> <<"pubmed">>, file |-> file, hit |-> FALSE, failed |-> FALSE,
              raised |-> FALSE]

\* fetch_doi_metadata(doi); resp.body is response.json(), a dict.  The result is
\* the metadata dict, with found = FALSE for None.
fetch_doi_metadata(c, doi0, resp) ==
    LET doi  == CleanDoi(doi0)
        file == DoiCacheFile(doi)
    IN  IF file \in DOMAIN c
        THEN [found |-> TRUE, result |-> c[file].json, cache |-> c, net |-> <<>>,
              file |-> file, hit |-> TRUE, failed |-> FALSE, raised |-> FALSE]
        ELSE IF resp.ok
        THEN [found |-> TRUE, result |-> resp.body,
              cache |-> (file :> FileOfJson(resp.body)) @@ c,
              net |-> <<"crossref">>, file |-> file, hit |-> FALSE, failed |-> FALSE,
              raised |-> FALSE]
        ELSE [found |-> FALSE, result |-> {}, cache |-> c, net |-> <<"crossref">>,
              file |-> file, hit |-> FALSE, failed |-> TRUE, raised |-> FALSE]

\* fetch_unpaywall(doi): never cached.  resp.body is the JSON answer: is_oa and
\* best_oa_location, a dict ({} also stands for a missing or null location).
fetch_unpaywall(doi0, resp) ==
    IF resp.ok
    THEN [result |-> IF resp.body.is_oa /\ resp.body.best_oa_location # {}
                     THEN DictGet(resp.body.best_oa_location, "url_for_pdf")
                     ELSE None,
          net |-> <<"unpaywall">>, failed |-> FALSE, raised |-> FALSE]
    ELSE [result |-> None, net |-> <<"unpaywall">>, failed |-> TRUE, raised |-> FALSE]

\* Which branch of fetch_paper a reference string takes.
ReferenceKind(reference) ==
    IF StartsWith(reference, sPMID) \/ isdigit(reference) THEN "pmid"
    ELSE IF Contains(Lower(reference), <<"d", "o", "i">>) \/ StartsWith(reference, sTenDot)
    THEN "doi"
    ELSE "unknown"

\* fetch_paper(reference) -> (abstract, pdf_url); rs holds the answers the three
\* endpoints would give to a request made during this call.  failed tells that
\* the abstract's source failed, upFailed that the Unpaywall request failed.  An
\* exception out of a fetch_* call leaves fetch_paper at once (raised), with no
\* return value.
fetch_paper(c, reference, rs) ==
    IF ReferenceKind(reference) = "pmid"
    THEN LET pmid == Strip(Replace(reference, sPMID, <<>>))
             a    == fetch_pubmed_abstract(c, pmid, rs.pubmed)
         IN  [result |-> <<a.result, None>>, cache |-> a.cache, net |-> a.net,
              file |-> a.file, hit |-> a.hit, failed |-> a.failed, kind |-> "pmid",
              upFailed |-> FALSE, raised |-> a.raised]
    ELSE IF ReferenceKind(reference) = "doi"
    THEN LET doi == CleanDoi(reference)
             u   == fetch_unpaywall(doi, rs.unpaywall)
             m   == fetch_doi_metadata(c, doi, rs.crossref)
             abs == IF m.found /\ m.result # {} THEN DictGet(m.result, "abstract")
                    ELSE None
         IN  IF u.raised
             THEN [result |-> <<None, None>>, cache |-> c, net |-> u.net,
                   file |-> DoiCacheFile(doi), hit |-> FALSE, failed |-> FALSE,
                   kind |-> "doi", upFailed |-> u.failed, raised |-> TRUE]
             ELSE [result |-> <<abs, u.result>>, cache |-> m.cache,
                   net |-> u.net \o m.net, file |-> m.file, hit |-> m.hit,
                   failed |-> m.failed, kind |-> "doi", upFailed |-> u.failed,
                   raised |-> m.raised]
    ELSE [result |-> <<None, None>>, cache |-> c, net |-> <<>>,
          file |-> None, hit |-> FALSE, failed |-> FALSE, kind |-> "unknown",
          upFailed |-> FALSE, raised |-> FALSE]

-----------------------------------------------------------------------------
(* IntelligentSnippetFixer: extract_relevant_sentences *)

\* The characters of a string constant, one per element.
Chars(str) == [i \in 1..Len(str) |-> SubSeq(str, i, i)]

SentenceEnd == {".", "!", "?"}

\* re.split(r'[.!?]\s+', s) from position start on: a match begins at a
\* sentence-ending character followed by whitespace and takes all of it
RECURSIVE ReSplit(_, _)
ReSplit(s, start) ==
    LET P == {p \in start..(Len(s) - 1) :
                s[p] \in SentenceEnd /\ s[p + 1] \in Whitespace}
    IN  IF P = {} THEN <<SubSeq(s, start, Len(s))>>
        ELSE LET p == CHOOSE x \in P : \A y \in P : x <= y
                 j == SkipWhile(s, p + 1, Whitespace)
             IN  <<SubSeq(s, start, p - 1)>> \o ReSplit(s, j)

\* abbreviations protected from the split
sSp      == Chars("sp.")
sSpMark  == Chars("sp__")
sNov     == Chars("nov.")
sNovMark == Chars("nov__")
sEtAl    == Chars("et al.")
sEtAlMark == Chars("et al__")

\* abstract.replace("sp.", "sp__").replace("nov.", "nov__").replace("et al.", "et al__")
ProtectAbbreviations(a) ==
    Replace(Replace(Replace(a, sSp, sSpMark), sNov, sNovMark), sEtAl, sEtAlMark)

\* s.replace("sp__", "sp.").replace("nov__", "nov__").replace("et al__", "et al.").strip()
RestoreAbbreviations(x) ==
    Strip(Replace(Replace(Replace(x, sSpMark, sSp), sNovMark, sNovMark),
                  sEtAlMark, sEtAl))

\* ^\(\d+\)
MatchAffiliation(sl) ==
    /\ sl # <<>> /\ sl[1] = "("
    /\ LET e == SkipWhile(sl, 2, Digits)
       IN  e > 2 /\ e <= Len(sl) /\ sl[e] = ")"

\* ^\d{4}
MatchYear(sl) == Len(sl) >= 4 /\ \A i \in 1..4 : sl[i] \in Digits

\* The three author-name patterns ('^[A-Z][a-z]+ [A-Z]{1,3}\(\d+\)',
\* '[A-Z][a-z]+\s+[A-Z]{2,4}\(\d+\)', '^[A-Z][a-z]+\s+[A-Z][A-Z]') each begin
\* with a character of [A-Z]: a string holding none matches none of them.  They
\* are searched in the lower-cased sentence.
HasUpper(sl) == \E i \in 1..Len(sl) : sl[i] \in UpperSet

\* any(re.search(pattern, s_lower) for pattern in exclude_patterns), for a
\* lower-cased sentence
ExcludedLine(sl) ==
    \/ StartsWith(sl, Chars("author information:"))
    \/ StartsWith(sl, Chars("copyright"))
    \/ MatchAffiliation(sl)
    \/ HasUpper(sl)
    \/ Contains(sl, Chars("@"))
    \/ MatchYear(sl)
    \/ StartsWith(sl, Chars("doi:"))
    \/ StartsWith(sl, Chars("pmid:"))
    \/ StartsWith(sl, Chars("published by"))
    \/ StartsWith(sl, Chars("all rights reserved"))
    \/ Contains(sl, Chars("et al"))

MinSentenceLen == 50
MaxSentenceLen == 500

\* a sentence passes the filter
KeepSentence(sent) ==
    /\ ~ExcludedLine(Lower(sent))
    /\ MinSentenceLen <= Len(sent) /\ Len(sent) <= MaxSentenceLen

\* the sentences of the abstract that pass the filter, in document order
FilteredSentences(a) ==
    LET pieces == ReSplit(ProtectAbbreviations(a), 1)
        restored == [k \in 1..Len(pieces) |-> RestoreAbbreviations(pieces[k])]
    IN  SelectSeq(restored, KeepSentence)

\* ---- relevance scores
\* A score is a Python float built from the terms 5.0, 2.0, 1.0, 0.5, -1.0 and
\* 0.3.  <<h, t, e>> stands for the double  h/2 + t * (L + e) / 2^54,  where
\* L / 2^54 is the double nearest to 0.3 (L = 5404319552844595): h counts the
\* halves, t tells whether 0.3 has been added, and e is what rounding to the
\* 53-bit significand has moved the sum by, in units of 2^-54.  Doubles of this
\* form compare as their triples do, h first, then t, then e.  The low bits of
\* L decide every rounding of a score below 2^18.
FloatLow == 209715    \* L mod 2^20

Abs(n) == IF n < 0 THEN -n ELSE n

\* the power of two above m: 1 for 0, 2 for 1, 4 for 2 and 3, 8 for 4..7, ...
RECURSIVE PowerAbove(_)
PowerAbove(m) == IF m = 0 THEN 1 ELSE 2 * PowerAbove(m \div 2)

\* spacing of the doubles around h/2 + 0.3 (around its absolute value), in
\* units of 2^-54: it doubles at every power of two
FloatGrid(h) == PowerAbove(IF h >= 0 THEN h ELSE -h - 1)

\* round-to-nearest, ties to the even significand
RoundTo(h, e) ==
    LET G == FloatGrid(h)
        x == FloatLow + e
        r == x % G
    IN  IF r = 0 THEN e
        ELSE IF 2 * r < G THEN e - r
        ELSE IF 2 * r > G THEN e + G - r
        ELSE IF ((x - r) % (2 * G)) = 0 THEN e - r
        ELSE e + G - r

NoScore == <<0, 0, 0>>    \* score = 0.0

\* score += d/2  (d halves, possibly negative)
AddHalves(sc, d) ==
    <<sc[1] + d, sc[2], IF sc[2] = 1 THEN RoundTo(sc[1] + d, sc[3]) ELSE 0>>

\* score += 0.3
AddThreeTenths(sc) == <<sc[1], 1, RoundTo(sc[1], 0)>>

\* "if cond: score += d / 2" and "if cond: score += 0.3"
AddHalvesIf(cond, s, d) == IF cond THEN AddHalves(s, d) ELSE s
AddThreeTenthsIf(cond, s) == IF cond THEN AddThreeTenths(s) ELSE s

\* a < b
ScoreLess(a, b) ==
    \/ a[1] < b[1]
    \/ a[1] = b[1] /\ a[2] < b[2]
    \/ a[1] = b[1] /\ a[2] = b[2] /\ a[3] < b[3]

\* score > 0
ScorePositive(sc) == sc[1] > 0 \/ (sc[1] = 0 /\ sc[2] = 1)

\* score >= n, for a whole number n
ScoreAtLeast(sc, n) == sc[1] >= 2 * n

\* position after the longest  \d+\.?\d*\s*  that begins at the digit s[i]
AfterNumber(s, i) ==
    LET j1 == SkipWhile(s, i, Digits)
        j2 == IF j1 <= Len(s) /\ s[j1] = "." THEN j1 + 1 ELSE j1
        j3 == SkipWhile(s, j2, Digits)
    IN  SkipWhile(s, j3, Whitespace)

\* re.search(r'\d+\.?\d*\s*%', sentence)
HasPercentage(s) ==
    \E i \in 1..Len(s) : s[i] \in Digits /\ StartsAt(s, AfterNumber(s, i), <<"%">>)

\* mM|uM|mg/L|g/L|pH  (the micro sign is the one character "mu")
ConcentrationUnits ==
    {Chars("mM"), <<"mu", "M">>, Chars("mg/L"), Chars("g/L"), Chars("pH")}

\* re.search(r'\d+\.?\d*\s*(mM|uM|mg/L|g/L|pH)', sentence)
HasConcentration(s) ==
    \E i \in 1..Len(s) :
        s[i] \in Digits /\ \E u \in ConcentrationUnits : StartsAt(s, AfterNumber(s, i), u)

generic_terms ==
    {Chars("paper"), Chars("study"), Chars("review"), Chars("article"),
     Chars("here we"), Chars("in this")}

scientific_verbs ==
    {Chars("showed"), Chars("demonstrated"), Chars("observed"), Chars("found"),
     Chars("indicated"), Chars("revealed"), Chars("exhibited"), Chars("contained"),
     Chars("produced"), Chars("reduced"), Chars("oxidized"), Chars("catalyzed"),
     Chars("dominated"), Chars("enriched")}

\* sentences.index(sentence) + 1: the first position holding an equal sentence
IndexOf(sentences, sent) ==
    CHOOSE i \in 1..Len(sentences) :
        sentences[i] = sent /\ \A j \in 1..(i - 1) : sentences[j] # sent

\* the sentence's score needs organism_parts[0] and there is none: IndexError
ScoreRaises(sent, organism) ==
    ~Contains(Lower(sent), Lower(organism)) /\ Words(Lower(organism)) = <<>>

\* the score one pass of the scoring loop gives a sentence
SentenceScore(sentences, sent, organism, context_keywords) ==
    LET sl    == Lower(sent)
        parts == Words(Lower(organism))
        topic == IF Contains(sl, Lower(organism)) THEN 10
                 ELSE (IF Contains(sl, parts[1]) THEN 4 ELSE 0)
                      + (IF Len(parts) > 1 /\ Contains(sl, parts[2]) THEN 2 ELSE 0)
        hits  == Cardinality({k \in 1..Len(context_keywords) :
                                Contains(sl, Lower(context_keywords[k]))})
        idx == IndexOf(sentences, sent)
    IN  AddHalvesIf(\E v \in scientific_verbs : Contains(sl, v),
          AddHalvesIf(\E g \in generic_terms : Contains(sl, g),
            AddThreeTenthsIf(1 < idx /\ idx < Len(sentences),
              AddHalvesIf(HasConcentration(sent),
                AddHalvesIf(HasPercentage(sent),
                  AddHalves(AddHalves(NoScore, topic), 2 * hits), 1), 1)), -2), 1)

\* scored_sentences.sort(key=lambda x: x[1], reverse=True): stable, so x goes
\* behind every entry whose score is not less than its own
InsertByScore(sorted, x) ==
    LET keep == {i \in 1..Len(sorted) : ~ScoreLess(sorted[i][2], x[2])}
        n == Cardinality(keep)
    IN  SubSeq(sorted, 1, n) \o <<x>> \o SubSeq(sorted, n + 1, Len(sorted))

RECURSIVE SortByScore(_)
SortByScore(scored) ==
    IF scored = <<>> THEN <<>>
    ELSE InsertByScore(SortByScore(SubSeq(scored, 1, Len(scored) - 1)),
                       scored[Len(scored)])

\* "if score > 0" of an entry (sentence, score)
PositiveScore(x) == ScorePositive(x[2])

\* the filtered sentences, each with its score (NoScore where scoring raises)
ScoredAll(sentences, organism, context_keywords) ==
    [k \in 1..Len(sentences) |->
        <<sentences[k],
          IF ScoreRaises(sentences[k], organism) THEN NoScore
          ELSE SentenceScore(sentences, sentences[k], organism, context_keywords)>>]

\* ScoreSentences without the sort
ScoreSentences_unsorted(sentences, organism, context_keywords) ==
    IF sentences # <<>> /\ organism = None
    THEN [raised |-> TRUE, scored |-> <<>>]
    ELSE IF \E k \in 1..Len(sentences) : ScoreRaises(sentences[k], organism)
    THEN [raised |-> TRUE, scored |-> <<>>]
    ELSE [raised |-> FALSE,
          scored |-> SelectSeq(ScoredAll(sentences, organism, context_keywords),
                               PositiveScore)]

\* the scoring loop over the filtered sentences and the sort of the entries
\* it kept; raised: the scoring of a sentence ended in an exception
ScoreSentences(sentences, organism, context_keywords) ==
    IF sentences # <<>> /\ organism = None
    THEN [raised |-> TRUE, scored |-> <<>>]
    ELSE IF \E k \in 1..Len(sentences) : ScoreRaises(sentences[k], organism)
    THEN [raised |-> TRUE, scored |-> <<>>]
    ELSE [raised |-> FALSE,
          scored |-> SortByScore(SelectSeq(ScoredAll(sentences, organism, context_keywords),
                                           PositiveScore))]

\* extract_relevant_sentences(abstract, organism, context_keywords) ->
\* [(sentence, score)], best first.  context_keywords is a list of strings, <<>>
\* for None and for [].
extract_relevant_sentences(abstract0, organism, context_keywords) ==
    IF ~Truthy(abstract0) THEN [raised |-> FALSE, scored |-> <<>>]
    ELSE ScoreSentences(FilteredSentences(abstract0), organism, context_keywords)

-----------------------------------------------------------------------------
(* IntelligentSnippetFixer: suggest_snippets_for_evidence *)

MaxSuggestions == 3     \* scored_sentences[:3]
HighScore      == 5     \* top_score >= 5.0
MediumScore    == 2     \* top_score >= 2.0

\* the confidence a top score gives
ConfidenceOf(top_score) ==
    IF ScoreAtLeast(top_score, HighScore) THEN "high"
    ELSE IF ScoreAtLeast(top_score, MediumScore) THEN "medium"
    ELSE "low"

\* None where a SnippetSuggestion is expected: no field of it holds a value
NoSuggestion == [organism |-> None, reference |-> None, current_snippet |-> None,
                 suggested_snippets |-> <<>>, abstract |-> None,
                 confidence |-> "none"]

\* SuggestionFrom taking scored_sentences[:4]
SuggestionFrom_top4(organism, reference, fetched, current_snippet, ex) ==
    IF ex.raised THEN [raised |-> TRUE, result |-> NoSuggestion]
    ELSE IF ex.scored = <<>> THEN [raised |-> FALSE, result |-> NoSuggestion]
    ELSE [raised |-> FALSE,
          result |->
            [organism |-> organism,
             reference |-> reference,
             current_snippet |-> current_snippet,
             suggested_snippets |->
                 [k \in 1..Min(MaxSuggestions + 1, Len(ex.scored)) |-> ex.scored[k][1]],
             abstract |-> fetched,
             confidence |-> ConfidenceOf(ex.scored[1][2])]]

\* suggest_snippets_for_evidence from "if not scored_sentences" on; ex is what
\* extract_relevant_sentences did, ex.scored its scored_sentences
SuggestionFrom(organism, reference, fetched, current_snippet, ex) ==
    IF ex.raised THEN [raised |-> TRUE, result |-> NoSuggestion]
    ELSE IF ex.scored = <<>> THEN [raised |-> FALSE, result |-> NoSuggestion]
    ELSE [raised |-> FALSE,
          result |->
            [organism |-> organism,
             reference |-> reference,
             current_snippet |-> current_snippet,
             suggested_snippets |->
                 [k \in 1..Min(MaxSuggestions, Len(ex.scored)) |-> ex.scored[k][1]],
             abstract |-> fetched,
             confidence |-> ConfidenceOf(ex.scored[1][2])]]

\* suggest_snippets_for_evidence(organism, reference, current_snippet,
\* context_keywords) -> SnippetSuggestion or None.  The reference selects the
\* fetcher method that is asked for the abstract; fetched is what that method
\* returned.  raised: the call ended in an exception, as reference.upper()
\* of a null reference does.
suggest_snippets_for_evidence(organism, reference, fetched, current_snippet, context_keywords) ==
    IF reference = None THEN [raised |-> TRUE, result |-> NoSuggestion]
    ELSE IF ~Truthy(fetched) THEN [raised |-> FALSE, result |-> NoSuggestion]
    ELSE SuggestionFrom(organism, reference, fetched, current_snippet,
                        extract_relevant_sentences(fetched, organism, context_keywords))

-----------------------------------------------------------------------------
(* EvidenceCurator: validate_snippet, _extract_best_snippet, _clean_snippet, *)
(* fetch_and_validate_evidence, _audit_evidence_item                        *)

\* \w of a str pattern, for ASCII text
WordChars ==
    UpperSet \cup {LowerAlpha[i] : i \in 1..Len(LowerAlpha)} \cup Digits \cup {"_"}
LowerSet == {LowerAlpha[i] : i \in 1..Len(LowerAlpha)}

\* \[\d+\] at p: the position behind the match, 0 without one
BracketCitationEnd(s, p) ==
    IF s[p] # "[" THEN 0
    ELSE LET e == SkipWhile(s, p + 1, Digits)
         IN  IF e > p + 1 /\ e <= Len(s) /\ s[e] = "]" THEN e + 1 ELSE 0

\* \([A-Za-z\s,]+\d{4}\) at p: the position behind the match, 0 without one
AuthorYearClass == UpperSet \cup LowerSet \cup Whitespace \cup {","}
AuthorYearEnd(s, p) ==
    IF s[p] # "(" THEN 0
    ELSE LET e == SkipWhile(s, p + 1, AuthorYearClass)
         IN  IF /\ e > p + 1
                /\ e + 4 <= Len(s)
                /\ \A d \in 0..3 : s[e + d] \in Digits
                /\ s[e + 4] = ")"
             THEN e + 5 ELSE 0

CitationEnd(bracket, s, p) ==
    IF bracket THEN BracketCitationEnd(s, p) ELSE AuthorYearEnd(s, p)

\* re.sub(pattern, '', s) from position i on, for the bracket pattern or the
\* author-year pattern: the leftmost match is removed, then the search goes on
\* behind it
RECURSIVE RemoveFrom(_, _, _)
RemoveFrom(s, i, bracket) ==
    LET P == {p \in i..Len(s) : CitationEnd(bracket, s, p) > 0}
    IN  IF P = {} THEN SubSeq(s, i, Len(s))
        ELSE LET p == CHOOSE x \in P : \A y \in P : x <= y
             IN  SubSeq(s, i, p - 1)
                 \o RemoveFrom(s, CitationEnd(bracket, s, p), bracket)

\* EvidenceCurator._clean_snippet(text)
_clean_snippet(text) ==
    JoinSplit(RemoveFrom(RemoveFrom(text, 1, TRUE), 1, FALSE))

\* re.split(r'(?<=[.!?])\s+(?=[A-Z])', s) from position start on: a match is a
\* whole run of whitespace behind a sentence-ending character and before a
\* capital letter
RECURSIVE SplitSentences(_, _)
SplitSentences(s, start) ==
    LET P == {p \in (start + 1)..Len(s) :
                /\ p > 1 /\ s[p - 1] \in SentenceEnd /\ s[p] \in Whitespace
                /\ LET e == SkipWhile(s, p, Whitespace)
                   IN  e <= Len(s) /\ s[e] \in UpperSet}
    IN  IF P = {} THEN <<SubSeq(s, start, Len(s))>>
        ELSE LET p == CHOOSE x \in P : \A y \in P : x <= y
             IN  <<SubSeq(s, start, p - 1)>>
                 \o SplitSentences(s, SkipWhile(s, p, Whitespace))

\* re.match(r'^[A-Z][a-z]+ [A-Z][a-z]+\.\s+\d{4}', s)
MatchJournalCitation(s) ==
    /\ Len(s) >= 1 /\ s[1] \in UpperSet
    /\ LET e1 == SkipWhile(s, 2, LowerSet)
       IN  /\ e1 > 2 /\ e1 + 1 <= Len(s) /\ s[e1] = " " /\ s[e1 + 1] \in UpperSet
           /\ LET e2 == SkipWhile(s, e1 + 2, LowerSet)
              IN  /\ e2 > e1 + 2 /\ e2 <= Len(s) /\ s[e2] = "."
                  /\ LET e3 == SkipWhile(s, e2 + 1, Whitespace)
                     IN  /\ e3 > e2 + 1 /\ e3 + 3 <= Len(s)
                         /\ \A d \in 0..3 : s[e3 + d] \in Digits

SubstantiveLen == 50     \* len(s) > 50

Substantive(s) == ~MatchJournalCitation(s) /\ Len(s) > SubstantiveLen

\* re.findall(r'\b\w{4,}\b', s): the runs of word characters of four or more
RECURSIVE LongWords(_, _)
LongWords(s, i) ==
    LET b == SkipUntil(s, i, WordChars)
        e == SkipWhile(s, b, WordChars)
    IN  IF b > Len(s) THEN <<>>
        ELSE (IF e - b >= 4 THEN <<SubSeq(s, b, e - 1)>> ELSE <<>>) \o LongWords(s, e)

StopWords == {Chars("that"), Chars("with"), Chars("from"), Chars("this"),
              Chars("were"), Chars("have")}
NotStopWord(w) == w \notin StopWords
MaxKeywords == 5         \* [:5]
MinKeywordHits == 2      \* best_score >= 2

sCandidatus == Chars("Candidatus")
sCandidatusSp == Chars("Candidatus ")

\* the organism variants that are truthy, in order
OrganismVariants(organism) ==
    LET genus == IF Contains(organism, <<" ">>) THEN Words(organism)[1] ELSE None
        plain == IF Contains(organism, sCandidatus)
                 THEN Replace(organism, sCandidatusSp, <<>>) ELSE None
    IN  SelectSeq(<<organism, genus, plain>>, Truthy)

\* the first sentence with the most keywords, and how many it holds
BestByKeywords(sentences, keywords) ==
    LET score(k) == Cardinality({w \in 1..Len(keywords) :
                                   Contains(Lower(sentences[k]), keywords[w])})
        best == Max({score(k) : k \in 1..Len(sentences)} \cup {0})
    IN  [score |-> best,
         sentence |-> IF best = 0 THEN None
                      ELSE sentences[CHOOSE k \in 1..Len(sentences) :
                               score(k) = best /\ \A j \in 1..(k - 1) : score(j) # best]]

\* _extract_best_snippet from "if not sentences" on, sentences being the
\* substantive sentences of the text
BestSnippetOf(sentences, organism, current_snippet) ==
    IF sentences = <<>> THEN [raised |-> FALSE, value |-> None]
    ELSE IF Truthy(organism) /\ Contains(organism, <<" ">>) /\ Words(organism) = <<>>
    THEN [raised |-> TRUE, value |-> None]
    ELSE
    LET variants == IF Truthy(organism) THEN OrganismVariants(organism) ELSE <<>>
        named == {k \in 1..Len(sentences) :
                    \E v \in 1..Len(variants) :
                        Contains(Lower(sentences[k]), Lower(variants[v]))}
        keywords == Take(SelectSeq(LongWords(Lower(current_snippet), 1), NotStopWord),
                         MaxKeywords)
        best == BestByKeywords(sentences, keywords)
    IN  IF named # {}
        THEN [raised |-> FALSE,
              value |-> _clean_snippet(sentences[CHOOSE k \in named :
                                                    \A j \in named : k <= j])]
        ELSE IF Truthy(current_snippet) /\ best.score >= MinKeywordHits
        THEN [raised |-> FALSE, value |-> _clean_snippet(best.sentence)]
        ELSE [raised |-> FALSE, value |-> _clean_snippet(sentences[1])]

\* EvidenceCurator._extract_best_snippet(text, organism, current_snippet) ->
\* str or None; raised: organism holds a blank and no word, and
\* organism.split()[0] is an IndexError
_extract_best_snippet(text, organism, current_snippet) ==
    BestSnippetOf(SelectSeq(SplitSentences(text, 1), Substantive), organism,
                  current_snippet)

\* EvidenceCurator.validate_snippet(snippet) -> (ok, issues); an issue text is
\* represented by its kind
sJournalAEM == Chars("Appl Environ Microbiol")
sJournalFM  == Chars("Front Microbiol")
sEllipsis   == Chars("...")
MinSnippetLen == 10      \* len(snippet) < 10
TruncatedLen  == 50      \* "..." in snippet and len(snippet) < 50

\* the ai_patterns, searched with re.IGNORECASE: every string they match
ImportantWords == {Chars("important"), Chars("key"), Chars("critical")}
AiPhrases ==
    {art \o w : art \in {Chars("is a "), Chars("is an ")}, w \in ImportantWords}
    \cup {art \o w \o Chars(" role") :
            art \in {Chars("plays a "), Chars("plays an ")}, w \in ImportantWords}
    \cup {Chars("has been shown to"), Chars("it is known that"),
          Chars("it is believed that")}

validate_snippet(snip) ==
    IF ~Truthy(snip) THEN [ok |-> FALSE, issues |-> <<"empty">>]
    ELSE LET issues ==
                (IF Len(snip) < MinSnippetLen THEN <<"too_short">> ELSE <<>>)
             \o (IF StartsWith(snip, sJournalAEM) \/ StartsWith(snip, sJournalFM)
                 THEN <<"journal_citation">> ELSE <<>>)
             \o (IF Contains(snip, sEllipsis) /\ Len(snip) < TruncatedLen
                 THEN <<"truncated">> ELSE <<>>)
             \o (IF \E ph \in AiPhrases : Contains(Lower(snip), ph)
                 THEN <<"ai_pattern">> ELSE <<>>)
         IN  [ok |-> issues = <<>>, issues |-> issues]

\* The result dict of fetch_and_validate_evidence before anything is known.
\* confidence_score is in tenths (10 for 1.0); paper_metadata is the set of the
\* dict's items.
DefaultValidation ==
    [abstract_fetched |-> FALSE, pdf_fetched |-> FALSE, snippet_valid |-> FALSE,
     snippet_in_abstract |-> FALSE, snippet_in_fulltext |-> FALSE,
     suggested_snippet |-> None, confidence_score |-> 0, paper_metadata |-> {}]

PaperMetadata(paper) ==
    {<<"title", paper.title>>, <<"year", paper.year>>,
     <<"journal", paper.journal>>, <<"authors", paper.authors>>}

\* result['suggested_snippet'] = self._extract_best_snippet(...) and the
\* confidence that goes with it; ex is what _extract_best_snippet did, and its
\* exception leaves the result r as it is
WithSuggestion(r, validated, ex, confidence) ==
    IF ex.raised THEN [out |-> r, validated |-> validated, raised |-> TRUE]
    ELSE [out |-> [r EXCEPT !.suggested_snippet = ex.value,
                            !.confidence_score = confidence],
          validated |-> validated, raised |-> FALSE]

\* the result once an abstract came back
AbstractFetched(paper) ==
    [DefaultValidation EXCEPT !.abstract_fetched = TRUE,
                              !.paper_metadata = PaperMetadata(paper)]

\* the first block of the try: the abstract.  out: the result dict so far;
\* validated: the texts validate_evidence_snippet was called with; raised: the
\* block ended in an exception
ValidateAgainstAbstract(paper, snip, organism) ==
    IF ~Truthy(paper.abstract)
    THEN [out |-> DefaultValidation, validated |-> <<>>, raised |-> FALSE]
    ELSE IF ~Truthy(snip)
    THEN [out |-> AbstractFetched(paper), validated |-> <<>>, raised |-> FALSE]
    ELSE IF validate_evidence_snippet(snip, paper.abstract)
    THEN [out |-> [AbstractFetched(paper) EXCEPT !.snippet_in_abstract = TRUE,
                                                 !.snippet_valid = TRUE,
                                                 !.confidence_score = 10],
          validated |-> <<"abstract">>, raised |-> FALSE]
    ELSE WithSuggestion(AbstractFetched(paper), <<"abstract">>,
                        _extract_best_snippet(paper.abstract, organism, snip), 3)

\* the second block of the try: the full text; a is what the first block did
ValidateAgainstFullText(a, paper, snip, organism, fetch_pdf) ==
    IF a.raised \/ ~(fetch_pdf /\ Truthy(paper.pdf_text)) THEN a
    ELSE IF a.out.snippet_valid \/ ~Truthy(snip)
    THEN [a EXCEPT !.out.pdf_fetched = TRUE]
    ELSE IF validate_evidence_snippet(snip, paper.pdf_text)
    THEN [out |-> [a.out EXCEPT !.pdf_fetched = TRUE,
                                !.snippet_in_fulltext = TRUE,
                                !.snippet_valid = TRUE,
                                !.confidence_score = 8],
          validated |-> Append(a.validated, "pdf_text"), raised |-> FALSE]
    ELSE WithSuggestion([a.out EXCEPT !.pdf_fetched = TRUE],
                        Append(a.validated, "pdf_text"),
                        _extract_best_snippet(paper.pdf_text, organism, snip), 5)

\* EvidenceCurator.fetch_and_validate_evidence(reference, snippet, organism,
\* fetch_pdf) -> result dict.  paper is what self.fetcher.fetch_paper(reference,
\* download_pdf=fetch_pdf) answers: paper.raised for an exception, else the
\* values paper.get gives for the keys.  Every exception ends the try and
\* leaves the result as it is.
fetch_and_validate_evidence(paper, snip, organism, fetch_pdf) ==
    IF paper.raised
    THEN [out |-> DefaultValidation, validated |-> <<>>, raised |-> TRUE]
    ELSE ValidateAgainstFullText(ValidateAgainstAbstract(paper, snip, organism),
                                 paper, snip, organism, fetch_pdf)

\* An EvidenceIssue: issue_type, current_value, suggested_fix, severity (file,
\* context, organism and reference are handed through).
Issue(type, current, fix, severity) ==
    [issue_type |-> type, current_value |-> current, suggested_fix |-> fix,
     severity |-> severity]

NoStats == [invalid_reference_format |-> 0, missing_evidence_source |-> 0,
            invalid_snippet |-> 0, total_validated |-> 0,
            abstract_fetch_failed |-> 0, snippet_not_in_source |-> 0,
            valid_evidence |-> 0]

CurrentValueLen == 100   \* snippet[:100]
SuggestedFixLen == 150   \* validation['suggested_snippet'][:150]

\* the issues of the reference, evidence_source and snippet checks; rf is what
\* validate_reference_format returned for the reference
FormatIssues(evidence, rf) ==
    LET vs == validate_snippet(evidence.snippet)
    IN  (IF ~rf.ok
         THEN <<Issue("INVALID_REFERENCE_FORMAT", evidence.reference, rf.fix,
                      IF ~Truthy(rf.fix) THEN "ERROR" ELSE "WARNING")>>
         ELSE <<>>)
     \o (IF ~Truthy(evidence.evidence_source)
         THEN <<Issue("MISSING_EVIDENCE_SOURCE", Chars("Not specified"),
                      Chars("IN_VITRO or IN_VIVO (check paper)"), "ERROR")>>
         ELSE <<>>)
     \o [k \in 1..Len(vs.issues) |->
            Issue("INVALID_SNIPPET",
                  IF Truthy(evidence.snippet)
                  THEN Take(evidence.snippet, CurrentValueLen) ELSE Chars("(empty)"),
                  Chars(vs.issues[k]), "ERROR")]

\* the issue the validation against the source adds, if any
SourceIssues(evidence, v) ==
    IF ~v.abstract_fetched
    THEN <<Issue("ABSTRACT_FETCH_FAILED", Take(evidence.snippet, CurrentValueLen),
                 None, "WARNING")>>
    ELSE IF ~v.snippet_valid
    THEN <<Issue("SNIPPET_NOT_IN_SOURCE", Take(evidence.snippet, CurrentValueLen),
                 IF Truthy(v.suggested_snippet)
                 THEN Take(v.suggested_snippet, SuggestedFixLen) ELSE None,
                 "ERROR")>>
    ELSE <<>>

\* what _audit_evidence_item adds to self.stats when the elif of the
\* outcomes is an if
AuditStats_ifNotElif(evidence, rf, called, v) ==
    [invalid_reference_format |-> IF ~rf.ok THEN 1 ELSE 0,
     missing_evidence_source |-> IF ~Truthy(evidence.evidence_source) THEN 1 ELSE 0,
     invalid_snippet |-> IF ~validate_snippet(evidence.snippet).ok THEN 1 ELSE 0,
     total_validated |-> IF called THEN 1 ELSE 0,
     abstract_fetch_failed |-> IF called /\ ~v.abstract_fetched THEN 1 ELSE 0,
     snippet_not_in_source |-> IF called /\ ~v.snippet_valid THEN 1 ELSE 0,
     valid_evidence |->
         IF called /\ v.abstract_fetched /\ v.snippet_valid THEN 1 ELSE 0]

\* what _audit_evidence_item adds to self.stats; rf is what
\* validate_reference_format returned, v is the validation
AuditStats(evidence, rf, called, v) ==
    [invalid_reference_format |-> IF ~rf.ok THEN 1 ELSE 0,
     missing_evidence_source |-> IF ~Truthy(evidence.evidence_source) THEN 1 ELSE 0,
     invalid_snippet |-> IF ~validate_snippet(evidence.snippet).ok THEN 1 ELSE 0,
     total_validated |-> IF called THEN 1 ELSE 0,
     abstract_fetch_failed |-> IF called /\ ~v.abstract_fetched THEN 1 ELSE 0,
     snippet_not_in_source |->
         IF called /\ v.abstract_fetched /\ ~v.snippet_valid THEN 1 ELSE 0,
     valid_evidence |->
         IF called /\ v.abstract_fetched /\ v.snippet_valid THEN 1 ELSE 0]

\* self.stats after a call that adds the counters b to the counters a
AddStats(a, b) == [k \in DOMAIN a |-> a[k] + b[k]]

\* the audit of an item from line 350 on; rf: what validate_reference_format
\* returned, called: fetch_and_validate_evidence was called, fv: what it did
\* (the default result when it was not called)
Audited(evidence, rf, called, fv) ==
    [issues |-> FormatIssues(evidence, rf)
                \o (IF called THEN SourceIssues(evidence, fv.out) ELSE <<>>),
     stats |-> AuditStats(evidence, rf, called, fv.out),
     called |-> called, validation |-> fv.out, validated |-> fv.validated,
     raised |-> fv.raised, exception |-> "none"]

\* the call left by the TypeError of validate_reference_format(None) at line
\* 349: no issue is returned and no counter has been touched
AuditRaised ==
    [issues |-> <<>>, stats |-> NoStats, called |-> FALSE,
     validation |-> DefaultValidation, validated |-> <<>>, raised |-> FALSE,
     exception |-> "TypeError"]

\* EvidenceCurator._audit_evidence_item(evidence, filename, context, organism,
\* fetch_pdf) -> issues, with the counters it adds to self.stats.  called:
\* fetch_and_validate_evidence was called; validation, validated: what it gave;
\* raised: the fetch raised inside it; exception: what the call itself raised.
_audit_evidence_item(evidence, organism, fetch_pdf, paper) ==
    LET rf == validate_reference_format(evidence.reference)
    IN  IF rf.raised THEN AuditRaised
        ELSE IF Truthy(evidence.snippet) /\ rf.ok
        THEN Audited(evidence, rf, TRUE,
                     fetch_and_validate_evidence(paper, evidence.snippet, organism,
                                                 fetch_pdf))
        ELSE Audited(evidence, rf, FALSE,
                     [out |-> DefaultValidation, validated |-> <<>>,
                      raised |-> FALSE])

-----------------------------------------------------------------------------
(* ReferenceValidator: validate_yaml_file *)

\* What yaml.safe_load gives: a dict (its keys in the order of the file, each
\* with its value), a list, a string or null.
YDict(pairs) == [kind |-> "dict", items |-> pairs]
YList(elems) == [kind |-> "list", items |-> elems]
YStr(chars)  == [kind |-> "str", value |-> chars]
YNull        == [kind |-> "null", value |-> None]

\* key in obj
HasKey(obj, key) == \E k \in 1..Len(obj.items) : obj.items[k][1] = key

\* obj.get(key)
YGet(obj, key) ==
    IF HasKey(obj, key)
    THEN obj.items[CHOOSE k \in 1..Len(obj.items) : obj.items[k][1] = key][2]
    ELSE YNull

\* "not value" is false for value
YTruthy(value) ==
    IF value.kind = "str" THEN value.value # <<>>
    ELSE IF value.kind = "null" THEN FALSE
    ELSE value.items # <<>>

\* the Python string or None a string or null stands for
Scalar(value) == IF value.kind = "str" THEN value.value ELSE None

\* str(n) of a natural number
RECURSIVE StrOfNat(_)
StrOfNat(n) ==
    IF n < 10 THEN <<DigitSeq[n + 1]>>
    ELSE StrOfNat(n \div 10) \o <<DigitSeq[(n % 10) + 1]>>

\* f"{path}.evidence[{i}]" and f"{path}[{i}]"
EvidencePath(path, i) == path \o Chars(".evidence[") \o StrOfNat(i) \o <<"]">>
IndexPath(path, i) == path \o <<"[">> \o StrOfNat(i) \o <<"]">>

\* f"{path}.{key}" if path else key
KeyPath(path, key) == IF path # <<>> THEN path \o <<".">> \o Chars(key) ELSE Chars(key)

\* recurse(obj, path) of _collect_evidence: the entries the call appends to
\* evidence_items, in order.  A dict gives the entries of the list it holds
\* under "evidence", then what each of its values gives, the "evidence" list
\* among them; a list gives what each of its elements gives.
RECURSIVE recurse(_, _)
RECURSIVE RecurseValues(_, _, _)
RECURSIVE RecurseElements(_, _, _)
recurse(obj, path) ==
    IF obj.kind = "dict"
    THEN (IF HasKey(obj, "evidence") /\ YGet(obj, "evidence").kind = "list"
          THEN [i \in 1..Len(YGet(obj, "evidence").items) |->
                   [path |-> EvidencePath(path, i - 1),
                    data |-> YGet(obj, "evidence").items[i]]]
          ELSE <<>>)
         \o RecurseValues(obj, path, 1)
    ELSE IF obj.kind = "list" THEN RecurseElements(obj, path, 1)
    ELSE <<>>

\* for key, value in obj.items(): recurse(value, ...), from the k-th key on
RecurseValues(obj, path, k) ==
    IF k > Len(obj.items) THEN <<>>
    ELSE recurse(obj.items[k][2], KeyPath(path, obj.items[k][1]))
         \o RecurseValues(obj, path, k + 1)

\* for i, item in enumerate(obj): recurse(item, ...), from the k-th element on
RecurseElements(obj, path, k) ==
    IF k > Len(obj.items) THEN <<>>
    ELSE recurse(obj.items[k], IndexPath(path, k - 1))
         \o RecurseElements(obj, path, k + 1)

\* ReferenceValidator._collect_evidence(data): every entry of every list held
\* under an "evidence" key anywhere in data, each under its path
_collect_evidence(data) == recurse(data, <<>>)

\* what _validate_evidence_item keeps of a call that went as far as the fetch
Fetched(v, out) ==
    [v EXCEPT !.cache = out.cache, !.net = out.net,
              !.failed = out.failed \/ out.upFailed, !.abstract = out.result[1]]

\* the call ended in an exception
Raised(v, c, net) ==
    [v EXCEPT !.raised = TRUE, !.cache = c, !.net = net, !.failed = TRUE,
              !.abstract = None]

\* ReferenceValidator._validate_evidence_item(item) from
\* "abstract, pdf_url = self.fetcher.fetch_paper(reference)" on; out is what
\* the fetch_paper call did.  A snippet that is no string has no split().
AfterFetch(v, item, out) ==
    IF out.raised THEN Raised(v, out.cache, out.net)
    ELSE IF ~Truthy(out.result[1])
    THEN [Fetched(v, out) EXCEPT
            !.warnings = Append(@, [path |-> item.path, reason |-> "no_abstract"])]
    ELSE IF YGet(item.data, "snippet").kind # "str"
    THEN Raised(v, out.cache, out.net)
    ELSE IF ~validate_evidence_snippet(Scalar(YGet(item.data, "snippet")), out.result[1])
    THEN [Fetched(v, out) EXCEPT !.errors = Append(@, [path |-> item.path])]
    ELSE [Fetched(v, out) EXCEPT !.validated = Append(@, [path |-> item.path])]

\* ReferenceValidator._validate_evidence_item(item).  v holds self.errors,
\* self.warnings and the items printed as validated, each entry under the path
\* of its item; c is the fetcher's cache_dir and rs what the network answers.
\* Of the call, v keeps: cache, net (requests made), failed (a request
\* failed), abstract (what fetch_paper gave) and raised (it ended in an
\* exception: the entry is no dict and has no get(), the reference is no
\* string and has no startswith(), or the fetch raised).
_validate_evidence_item(v, item, c, rs) ==
    IF item.data.kind # "dict" THEN Raised(v, c, <<>>)
    ELSE IF ~YTruthy(YGet(item.data, "reference"))
    THEN [v EXCEPT !.warnings = Append(@, [path |-> item.path,
                                           reason |-> "no_reference"]),
                   !.cache = c, !.net = <<>>, !.failed = FALSE,
                   !.abstract = None]
    ELSE IF ~YTruthy(YGet(item.data, "snippet"))
    THEN [v EXCEPT !.warnings = Append(@, [path |-> item.path,
                                           reason |-> "no_snippet"]),
                   !.cache = c, !.net = <<>>, !.failed = FALSE,
                   !.abstract = None]
    ELSE IF YGet(item.data, "reference").kind # "str"
    THEN Raised(v, c, <<>>)
    ELSE AfterFetch(v, item, fetch_paper(c, Scalar(YGet(item.data, "reference")), rs))

-----------------------------------------------------------------------------
(* The community files of kb/communities and fix_yaml_file *)

\* A key that a YAML mapping does not hold.
Absent == <<"Absent">>

\* A community file as yaml.safe_load returns it: the three sections that hold
\* evidence, each a sequence of entries [name, notes, functional_role,
\* evidence], each evidence item [oid, reference, snippet]; name is
\* taxon_term.preferred_term in the taxonomy section.  A section or an
\* evidence list that the file does not hold is the empty sequence: the code
\* iterates over neither.  oid is the identity of the item's dict: a YAML
\* alias (&e ... *e) loads as the dict of its anchor, so the items with one
\* oid are one object, hold the same values and change together.  Aliased
\* entries and aliased evidence lists share their items in the same way.

\* What a file of the directory holds.  A file written by yaml.dump holds the
\* same data as the file it was loaded from, in the layout yaml.dump gives
\* it: comments, quoting and line breaks of the authored file are not kept;
\* a dict the data holds twice is written as an anchor and its aliases.
Authored(data) == [layout |-> "authored", data |-> data]
Dumped(data) == [layout |-> "dumped", data |-> data]
safe_load(file) == file.data

\* yaml_path and yaml_path.with_suffix(suffix): the suffix replaces '.yaml',
\* but pathlib reads the file name '.yaml' as a name without suffix and
\* appends to it
YamlPath(name) == <<name, ".yaml">>
BackupPath(name, suffix) ==
    IF name = "" THEN <<".yaml", suffix>> ELSE <<name, suffix>>

\* the evidence items of a section, in the order the loops visit them
RECURSIVE EvidenceFrom(_, _)
EvidenceFrom(entries, k) ==
    IF k > Len(entries) THEN <<>>
    ELSE entries[k].evidence \o EvidenceFrom(entries, k + 1)

\* where the evidence items of a section stand, in the order the loops visit
\* them
RECURSIVE PlacesFrom(_, _, _)
PlacesFrom(entries, section, e) ==
    IF e > Len(entries) THEN <<>>
    ELSE [i \in 1..Len(entries[e].evidence) |-> <<section, e, i>>]
         \o PlacesFrom(entries, section, e + 1)
ItemAt(data, place) == data[place[1]][place[2]].evidence[place[3]]

\* ev[key] = value on the loaded data: every place that holds the object
AssignedIn(evidence, oid, key, value) ==
    [i \in 1..Len(evidence) |->
        IF evidence[i].oid = oid THEN [evidence[i] EXCEPT ![key] = value]
        ELSE evidence[i]]
Assigned(data, oid, key, value) ==
    [section \in DOMAIN data |->
        [e \in 1..Len(data[section]) |->
            [data[section][e] EXCEPT
                !.evidence = AssignedIn(@, oid, key, value)]]]

\* 'reference' in ev, and fix_reference reports a change
NeedsFix(ev) ==
    ev.reference # Absent /\ fix_reference(ev.reference).was_changed

\* the body of the loops for one evidence item: changes.append((ev['reference'],
\* fixed, context)) and, in an apply run, ev['reference'] = fixed
ChangesOf(st, ev, context, dry_run) ==
    IF ~NeedsFix(ev) THEN st
    ELSE [data |-> IF dry_run THEN st.data
                   ELSE Assigned(st.data, ev.oid, "reference",
                                 fix_reference(ev.reference).ref),
          changes |-> Append(st.changes,
                             <<ev.reference, fix_reference(ev.reference).ref, context>>)]

\* one of the three loops from the k-th place on; st holds data and changes
RECURSIVE LoopOver(_, _, _, _, _)
LoopOver(st, places, k, context, dry_run) ==
    IF k > Len(places) THEN st
    ELSE LoopOver(ChangesOf(st, ItemAt(st.data, places[k]), context, dry_run),
                  places, k + 1, context, dry_run)
SectionChanges(st, section, context, dry_run) ==
    LoopOver(st, PlacesFrom(st.data[section], section, 1), 1, context, dry_run)

\* data and changes after the three loops
Looped(data, dry_run) ==
    SectionChanges(
        SectionChanges(
            SectionChanges([data |-> data, changes |-> <<>>],
                           "taxonomy", "taxonomy", dry_run),
            "ecological_interactions", "interaction", dry_run),
        "environmental_factors", "environmental", dry_run)

\* data after the three loops of an apply run
FixedData(data) == Looped(data, FALSE).data

\* the changes list after the three loops
AllChanges(data, dry_run) == Looped(data, dry_run).changes

\* ev['reference'] is None (a YAML null): fix_reference fails on
\* ref.startswith and the call ends in an AttributeError
HasNullReference(items) == \E k \in 1..Len(items) : items[k].reference = None
AnyNullReference(data) ==
    \/ HasNullReference(EvidenceFrom(data.taxonomy, 1))
    \/ HasNullReference(EvidenceFrom(data.ecological_interactions, 1))
    \/ HasNullReference(EvidenceFrom(data.environmental_factors, 1))

\* if not dry_run and changes: yaml_path.rename(backup_path), then yaml.dump
\* of data, which the loops have changed, into a new file at yaml_path
WrittenBack(disk, name, dry_run, data, changes) ==
    IF ~dry_run /\ changes # <<>>
    THEN (BackupPath(name, ".yaml.bak3") :> disk[YamlPath(name)])
         @@ (YamlPath(name) :> Dumped(data)) @@ disk
    ELSE disk

\* fix_yaml_file from the loops on; looped is data and changes after them
FixResult(disk, name, dry_run, looped) ==
    [disk |-> WrittenBack(disk, name, dry_run, looped.data, looped.changes),
     raised |-> FALSE, changes |-> looped.changes,
     count |-> Len(looped.changes)]

\* fix_yaml_file after yaml.safe_load: the loops, the write-back, the result
FixRun(disk, name, dry_run, data) ==
    IF AnyNullReference(data)
    THEN [disk |-> disk, raised |-> TRUE, changes |-> <<>>, count |-> 0]
    ELSE FixResult(disk, name, dry_run, Looped(data, dry_run))

\* fix_yaml_file(yaml_path, dry_run) over the directory
fix_yaml_file(disk, name, dry_run) ==
    FixRun(disk, name, dry_run, safe_load(disk[YamlPath(name)]))

-----------------------------------------------------------------------------
(* intelligent_snippet_fixer.py: analyze_yaml_file, apply_snippet_fix_to_yaml *)
(* and interactive_fix_workflow                                             *)

\* d.get(key, default) for a key the mapping may not hold
GetOr(v, default) == IF v = Absent THEN default ELSE v

\* list(set(xs)): each element of xs once, in the order in which the set
\* iterates; the order follows the hashes of the strings, which change with
\* the interpreter's hash seed, so the call can return any order of the
\* elements.  ListOfSet is the set of the lists it can return.
RECURSIVE Orders(_)
Orders(S) ==
    IF S = {} THEN {<<>>}
    ELSE UNION {{<<x>> \o rest : rest \in Orders(S \ {x})} : x \in S}
ListOfSet(xs) == Orders({xs[k] : k \in 1..Len(xs)})

role_mapping ==
    [PRIMARY_DEGRADER |-> <<Chars("degradation"), Chars("degrader"), Chars("breakdown")>>,
     PRODUCER |-> <<Chars("production"), Chars("produces"), Chars("synthesis")>>,
     CONSUMER |-> <<Chars("consumption"), Chars("utilizes"), Chars("uptake")>>,
     CROSS_FEEDER |-> <<Chars("cross-feeding"), Chars("exchange"), Chars("transfer")>>]

metabolic_terms ==
    <<Chars("oxidation"), Chars("reduction"), Chars("fermentation"),
      Chars("respiration"), Chars("fixation"), Chars("assimilation"),
      Chars("metabolism"), Chars("pathway"), Chars("iron"), Chars("sulfur"),
      Chars("nitrogen"), Chars("carbon"), Chars("hydrogen"), Chars("pH"),
      Chars("acid"), Chars("metal"), Chars("mineral")>>

\* keywords.extend(role_mapping[role]) for the roles the mapping holds
RECURSIVE RoleKeywords(_)
RoleKeywords(roles) ==
    IF roles = <<>> THEN <<>>
    ELSE (IF roles[1] \in DOMAIN role_mapping THEN role_mapping[roles[1]] ELSE <<>>)
         \o RoleKeywords(Tail(roles))

\* the metabolic terms found in notes_lower
TermsIn(notes_lower) ==
    SelectSeq(metabolic_terms, LAMBDA term : Contains(notes_lower, term))

\* extract_context_keywords(organism_notes, functional_roles): the lists the
\* call can return
extract_context_keywords(organism_notes, functional_roles) ==
    ListOfSet(RoleKeywords(functional_roles) \o TermsIn(Lower(organism_notes)))

\* re.findall(r'[A-Za-z]{5,}', s) from position i on
MinWordLen == 5
MaxCurrentWords == 8
Letters == UpperSet \cup LowerSet
RECURSIVE LetterRuns(_, _)
LetterRuns(s, i) ==
    IF SkipUntil(s, i, Letters) > Len(s) THEN <<>>
    ELSE (IF SkipWhile(s, SkipUntil(s, i, Letters), Letters)
               - SkipUntil(s, i, Letters) >= MinWordLen
          THEN <<SubSeq(s, SkipUntil(s, i, Letters),
                        SkipWhile(s, SkipUntil(s, i, Letters), Letters) - 1)>>
          ELSE <<>>)
         \o LetterRuns(s, SkipWhile(s, SkipUntil(s, i, Letters), Letters))

\* [w.lower() for w in re.findall(...)][:8]
CurrentWords(current_snippet) ==
    Take([k \in 1..Len(LetterRuns(current_snippet, 1)) |->
             Lower(LetterRuns(current_snippet, 1)[k])], MaxCurrentWords)

\* the context keywords interactive_fix_workflow hands to the fixer for an
\* item: list(set(context_keywords + current_words[:8])), the lists it can be
ItemKeywords(item) ==
    UNION {ListOfSet(context_keywords \o CurrentWords(item.current_snippet)) :
              context_keywords \in extract_context_keywords(item.notes,
                                                            item.functional_roles)}

sUnknown == Chars("Unknown")
sUnknownInteraction == Chars("Unknown interaction")
sUnknownFactor == Chars("Unknown factor")
ShortSnippetLen == 50

\* the dicts analyze_yaml_file appends for the evidence of one entry; pos is
\* where the evidence item stands in the file, which the dicts do not hold
EntryItems(entry, e, section, unknown, only_invalid) ==
    SelectSeq(
        [i \in 1..Len(entry.evidence) |->
            [organism |-> GetOr(entry.name, unknown),
             reference |-> GetOr(entry.evidence[i].reference, <<>>),
             current_snippet |-> GetOr(entry.evidence[i].snippet, <<>>),
             notes |-> GetOr(entry.notes, <<>>),
             functional_roles |-> IF section = "taxonomy"
                                  THEN GetOr(entry.functional_role, <<>>)
                                  ELSE <<>>,
             section |-> section,
             pos |-> <<section, e, i>>]],
        LAMBDA item : ~only_invalid \/ Len(item.current_snippet) < ShortSnippetLen)

RECURSIVE SectionItems(_, _, _, _, _)
SectionItems(entries, e, section, unknown, only_invalid) ==
    IF e > Len(entries) THEN <<>>
    ELSE EntryItems(entries[e], e, section, unknown, only_invalid)
         \o SectionItems(entries, e + 1, section, unknown, only_invalid)

\* len(snippet) of a null snippet: analyze_yaml_file ends in a TypeError
AnalyzeRaises(data, only_invalid) ==
    /\ only_invalid
    /\ \E sec \in {data.taxonomy, data.ecological_interactions,
                   data.environmental_factors} :
          \E k \in 1..Len(EvidenceFrom(sec, 1)) :
              EvidenceFrom(sec, 1)[k].snippet = None

\* analyze_yaml_file(yaml_path, only_invalid) on the loaded data
analyze_yaml_file(data, only_invalid) ==
    SectionItems(data.taxonomy, 1, "taxonomy", sUnknown, only_invalid)
    \o SectionItems(data.ecological_interactions, 1, "ecological_interactions",
                    sUnknownInteraction, only_invalid)
    \o SectionItems(data.environmental_factors, 1, "environmental_factors",
                    sUnknownFactor, only_invalid)

\* organism.lower() not in current_organism.lower(): whether the entry's name
\* contains the organism
NameMatches(entry, organism) ==
    Contains(Lower(GetOr(entry.name, <<>>)), Lower(organism))

\* the evidence items of an entry whose reference equals the reference
RefsAt(entry, reference) ==
    {i \in 1..Len(entry.evidence) :
        GetOr(entry.evidence[i].reference, <<>>) = reference}

Least(S) == CHOOSE n \in S : \A m \in S : n <= m

\* The loops of apply_snippet_fix_to_yaml over the entries of a section, from
\* entry e on.  They stop at the first evidence item with the reference in the
\* first entry that has one and whose name contains the organism (target), or
\* end without a match (target <<0, 0>>), or are left by the AttributeError of
\* the name test on the way there (raised): a name that is null, like an
\* organism that is null, has no lower().
RECURSIVE FirstMatchFrom(_, _, _, _)
FirstMatchFrom(entries, e, organism, reference) ==
    IF e > Len(entries) THEN [raised |-> FALSE, target |-> <<0, 0>>]
    ELSE IF organism = None \/ entries[e].name = None
    THEN [raised |-> TRUE, target |-> <<0, 0>>]
    ELSE IF ~NameMatches(entries[e], organism) \/ RefsAt(entries[e], reference) = {}
    THEN FirstMatchFrom(entries, e + 1, organism, reference)
    ELSE [raised |-> FALSE, target |-> <<e, Least(RefsAt(entries[e], reference))>>]
FirstMatch(entries, organism, reference) ==
    FirstMatchFrom(entries, 1, organism, reference)

\* evidence["snippet"] = new_snippet on the object found, which every place
\* that holds it shows, and the dump; without a match nothing is written
ApplyAt(disk, name, section, new_snippet, data, target) ==
    IF target = <<0, 0>>
    THEN [ok |-> FALSE, raised |-> FALSE, disk |-> disk, target |-> <<section, 0, 0>>]
    ELSE [ok |-> TRUE, raised |-> FALSE,
          disk |-> (YamlPath(name) :>
                      Dumped(Assigned(data,
                                 ItemAt(data, <<section, target[1], target[2]>>).oid,
                                 "snippet", new_snippet)))
                   @@ disk,
          target |-> <<section, target[1], target[2]>>]

\* the sections apply_snippet_fix_to_yaml knows
SectionNames == {"taxonomy", "ecological_interactions", "environmental_factors"}

\* apply_snippet_fix_to_yaml after yaml.safe_load: the loops over the section,
\* or "Unknown section" and False for any other section name
ApplyTo(disk, name, organism, reference, new_snippet, section, data) ==
    IF section \notin SectionNames
    THEN [ok |-> FALSE, raised |-> FALSE, disk |-> disk, target |-> <<section, 0, 0>>]
    ELSE IF FirstMatch(data[section], organism, reference).raised
    THEN [ok |-> FALSE, raised |-> TRUE, disk |-> disk, target |-> <<section, 0, 0>>]
    ELSE ApplyAt(disk, name, section, new_snippet, data,
                 FirstMatch(data[section], organism, reference).target)

\* apply_snippet_fix_to_yaml(yaml_path, organism, reference, new_snippet, section)
\* -> ok, with the directory it leaves; raised: the call ended in an exception
apply_snippet_fix_to_yaml(disk, name, organism, reference, new_snippet, section) ==
    ApplyTo(disk, name, organism, reference, new_snippet, section,
            safe_load(disk[YamlPath(name)]))

\* int(choice) of a stripped line of ASCII characters: an optional sign, then
\* decimal digits that single underscores may group; anything else is a
\* ValueError
Unsigned(s) == IF s # <<>> /\ s[1] \in {"+", "-"} THEN Tail(s) ELSE s
IsIntLiteral(s) ==
    /\ Unsigned(s) # <<>>
    /\ \A k \in 1..Len(Unsigned(s)) : Unsigned(s)[k] \in Digits \cup {"_"}
    /\ Unsigned(s)[1] # "_" /\ Unsigned(s)[Len(Unsigned(s))] # "_"
    /\ \A k \in 1..(Len(Unsigned(s)) - 1) :
          ~(Unsigned(s)[k] = "_" /\ Unsigned(s)[k + 1] = "_")
DigitValue(c) == (CHOOSE k \in 1..Len(DigitSeq) : DigitSeq[k] = c) - 1
RECURSIVE DecimalOf(_)
DecimalOf(s) ==
    IF s = <<>> THEN 0
    ELSE 10 * DecimalOf(SubSeq(s, 1, Len(s) - 1)) + DigitValue(s[Len(s)])
IntOf(s) ==
    (IF s[1] = "-" THEN -1 ELSE 1)
        * DecimalOf(SelectSeq(Unsigned(s), LAMBDA c : c \in Digits))


\* The fetcher method suggest_snippets_for_evidence asks for the abstract and
\* the identifier it hands to it.
FetchRoute(reference) ==
    IF StartsWith(Lower(reference), sPMIDlc)
    THEN <<"fetch_pubmed_abstract",
           Strip(Replace(Replace(reference, sPMID, <<>>), sPMIDlc, <<>>))>>
    ELSE IF Contains(Lower(reference), <<"d", "o", "i">>) \/ StartsWith(reference, sTenDot)
    THEN <<"fetch_abstract_for_doi", CleanDoi(reference)>>
    ELSE <<"fetch_paper", reference>>

\* what the fetcher of the snippet fixer answers: library holds the abstract
\* of each request that has one
LibraryGet(library, reference) ==
    IF FetchRoute(reference) \in DOMAIN library THEN library[FetchRoute(reference)]
    ELSE None

\* A call of interactive_fix_workflow, step by step.  w holds the directory
\* (disk), the arguments of the call and the library its fetcher reads from
\* (p), the lines the terminal still holds (typed), where the call stands
\* (pc), the items analyze_yaml_file returned and the number of the one the
\* loop is at (items, k), the suggestion shown at a prompt (pending), the three
\* counters, whether the user quit, and whether the call ended in an
\* exception and in which; log keeps, for each item the loop finished, what
\* became of it and the directory after it.  pc is "idle" when no call is in
\* progress, "loop" at the head of the for loop and after it, and "prompt",
\* "view" or "enter" while the call waits in input(): at the first prompt, at
\* the prompt after the abstract, at "Press Enter to continue...".

\* the call returns
Returned(w) == [w EXCEPT !.pc = "idle", !.runs = @ + 1]

\* the call is left by an exception
WorkflowRaised(w, exception) ==
    [w EXCEPT !.raised = TRUE, !.exception = exception, !.pc = "idle",
              !.runs = @ + 1]

\* the loop is done with an item: the counter, the log, and on to the next
Finish(w, item, outcome, result, selected, target) ==
    [w EXCEPT
        !.applied = @ + (IF outcome = "applied" THEN 1 ELSE 0),
        !.skipped = @ + (IF outcome = "skipped" THEN 1 ELSE 0),
        !.failed = @ + (IF outcome = "failed" THEN 1 ELSE 0),
        !.quit = outcome = "quit",
        !.pc = "loop", !.k = @ + 1, !.pending = NoSuggestion,
        !.log = Append(@, [pos |-> item.pos, outcome |-> outcome,
                           confidence |-> result.confidence,
                           suggested |-> result.suggested_snippets,
                           selected |-> selected,
                           target |-> target, disk |-> w.disk])]

\* the outcome of apply_snippet_fix_to_yaml: applied_count or failed_count,
\* or its exception, which nothing in the workflow catches
Applied(item, w, result, selected, a) ==
    IF a.raised THEN WorkflowRaised(w, "AttributeError")
    ELSE Finish([w EXCEPT !.disk = a.disk], item,
                IF a.ok THEN "applied" ELSE "failed", result, selected, a.target)

\* "Apply the selected snippet": int(choice) - 1 indexes suggested_snippets;
\* a ValueError of int and an index out of range are counted as skipped
Chosen(item, w, result, choice) ==
    IF ~IsIntLiteral(choice)
    THEN Finish(w, item, "skipped", result, None, <<>>)
    ELSE IF IntOf(choice) - 1 \notin 0..(Len(result.suggested_snippets) - 1)
    THEN Finish(w, item, "skipped", result, None, <<>>)
    ELSE Applied(item, w, result, result.suggested_snippets[IntOf(choice)],
                 apply_snippet_fix_to_yaml(w.disk, w.p.name, item.organism,
                     item.reference, result.suggested_snippets[IntOf(choice)],
                     item.section))

\* input().strip().lower() of the next line of the terminal, and the
\* terminal after it
Typed(w) == Lower(Strip(w.typed[1]))
Read(w) == [w EXCEPT !.typed = Tail(@)]

\* what follows the second prompt, the one after the abstract; choice is the
\* line read there
SecondPrompt(item, w, result, choice) ==
    IF choice = <<"q">> THEN Finish(w, item, "quit", result, None, <<>>)
    ELSE IF choice \in {<<"s">>, <<>>}
    THEN Finish(w, item, "skipped", result, None, <<>>)
    ELSE Chosen(item, w, result, choice)

\* what follows the first prompt; choice is the line read there.  'v' shows
\* the abstract and waits at the second prompt.
FirstPrompt(item, w, result, choice) ==
    IF choice = <<"q">> THEN Finish(w, item, "quit", result, None, <<>>)
    ELSE IF choice \in {<<"s">>, <<>>}
    THEN Finish(w, item, "skipped", result, None, <<>>)
    ELSE IF choice = <<"v">> THEN [w EXCEPT !.pc = "view"]
    ELSE Chosen(item, w, result, choice)

\* The exception the loop body ends in before it asks for a suggestion:
\* item['current_snippet'][:200] of a null snippet (line 534) and the for over
\* null functional_roles (line 271) are TypeErrors, lower() of null notes
\* (line 284) is an AttributeError; "none" when it goes on.
ItemRaises(item) ==
    IF item.current_snippet = None \/ item.functional_roles = None THEN "TypeError"
    ELSE IF item.notes = None THEN "AttributeError"
    ELSE "none"

\* One pass of the loop from the suggestion to the first input() or to the
\* end of the pass; suggestion is what suggest_snippets_for_evidence did.
\* When it raised: upper() of a null reference and lower() of a null organism
\* are AttributeErrors, organism_parts[0] of an organism without a word is an
\* IndexError.  An item without a suggestion is counted in failed_count and,
\* unless auto_approve, waits at "Press Enter to continue...".
Decide(item, w, suggestion) ==
    IF suggestion.raised
    THEN WorkflowRaised(w, IF item.reference = None \/ item.organism = None
                           THEN "AttributeError" ELSE "IndexError")
    ELSE IF suggestion.result = NoSuggestion
    THEN [Finish(w, item, "failed", NoSuggestion, None, <<>>) EXCEPT
             !.pc = IF w.p.auto_approve THEN "loop" ELSE "enter"]
    ELSE IF w.p.auto_approve
    THEN IF suggestion.result.confidence = "low" /\ ~w.p.relaxed
         THEN Finish(w, item, "skipped", suggestion.result, None, <<>>)
         ELSE Chosen(item, w, suggestion.result, <<"1">>)
    ELSE [w EXCEPT !.pc = "prompt", !.pending = suggestion.result]

\* one pass of the loop up to its first input() or to its end: the states it
\* can come to, one for every list the context keywords can be
ItemStep(item, w) ==
    IF ItemRaises(item) # "none" THEN {WorkflowRaised(w, ItemRaises(item))}
    ELSE {Decide(item, w,
                 suggest_snippets_for_evidence(item.organism, item.reference,
                     LibraryGet(w.p.library, item.reference),
                     item.current_snippet, context_keywords)) :
             context_keywords \in ItemKeywords(item)}

\* path.unlink()
Unlinked(disk, path) == [f \in DOMAIN disk \ {path} |-> disk[f]]

\* the summary: the backup is removed when nothing was applied
Summary(w) ==
    IF w.applied > 0 THEN w
    ELSE [w EXCEPT !.disk = Unlinked(@, BackupPath(w.p.name, ".yaml.bak_intelligent"))]

\* the call before it looks at the file
Called(w, p, typed) ==
    [w EXCEPT !.p = p, !.typed = typed, !.start = w.disk, !.copied = w.disk,
              !.pc = "idle", !.items = <<>>, !.k = 1, !.pending = NoSuggestion,
              !.applied = 0, !.skipped = 0, !.failed = 0, !.quit = FALSE,
              !.raised = FALSE, !.exception = "none", !.log = <<>>]

\* interactive_fix_workflow(yaml_path, only_invalid, auto_approve, verbose,
\* relaxed) from its first line to the head of the loop: analyze_yaml_file,
\* the return for a file without items, the backup copy.  p holds the
\* arguments, typed the lines of the terminal.
interactive_fix_workflow(w, p, typed) ==
    IF AnalyzeRaises(safe_load(w.disk[YamlPath(p.name)]), p.only_invalid)
    THEN WorkflowRaised(Called(w, p, typed), "TypeError")
    ELSE IF analyze_yaml_file(safe_load(w.disk[YamlPath(p.name)]), p.only_invalid) = <<>>
    THEN Returned(Called(w, p, typed))
    ELSE [Called(w, p, typed) EXCEPT
             !.disk = (BackupPath(p.name, ".yaml.bak_intelligent")
                          :> w.disk[YamlPath(p.name)]) @@ w.disk,
             !.copied = (BackupPath(p.name, ".yaml.bak_intelligent")
                            :> w.disk[YamlPath(p.name)]) @@ w.disk,
             !.items = analyze_yaml_file(safe_load(w.disk[YamlPath(p.name)]),
                                         p.only_invalid),
             !.pc = "loop"]

-----------------------------------------------------------------------------
(* batch_snippet_fixer.py: process_files_batch *)

\* A call of process_files_batch, step by step.  b holds the file list and
\* the number of the file the loop is at (files, i), the arguments (p), the
\* results, where the call stands (pc: "files" at the head of the loop,
\* "workflow" while interactive_fix_workflow runs, "pause" in the input()
\* between two files), and how it ended (done, raised, exception).  The
\* directory and the terminal are those of the workflow.

\* results.append({"file": filename, "status": status, ...})
Recorded(b, filename, status) ==
    [b EXCEPT !.results = Append(@, [file |-> filename, status |-> status])]

\* the call is left by an exception
BatchRaised(b, exception) ==
    [b EXCEPT !.raised = TRUE, !.exception = exception, !.done = TRUE]

\* the pause after a file: input() unless auto_approve or the file is the
\* last, and on to the next file
Paused(b) ==
    IF b.p.auto_approve \/ b.i >= Len(b.files)
    THEN [b EXCEPT !.i = @ + 1, !.pc = "files"]
    ELSE [b EXCEPT !.pc = "pause"]

\* The try around interactive_fix_workflow once the workflow w has ended:
\* "processed" when it returned, "error" when it raised an Exception;
\* KeyboardInterrupt is no Exception and leaves process_files_batch.
FileDone(b, w) ==
    IF w.raised /\ w.exception = "KeyboardInterrupt"
    THEN BatchRaised(b, "KeyboardInterrupt")
    ELSE Paused(Recorded(b, b.files[b.i], IF w.raised THEN "error" ELSE "processed"))

-----------------------------------------------------------------------------
(* Bounds and inputs *)

MaxRuns      == 2   \* fix_reference passes over one reference
MaxBody      == 3   \* characters after the prefixes of a reference input
MaxRun       == 19  \* longest run of one letter in a snippet or abstract input
MaxCalls     == 2   \* fetch_paper calls
MaxSentences == 4   \* sentences of an abstract handed to the snippet fixer
MaxItems     == 2   \* evidence items of a community file
MaxValidations == 2 \* validate_yaml_file calls of one validator

RECURSIVE Rep(_, _)
Rep(c, n) == IF n = 0 THEN <<>> ELSE <<c>> \o Rep(c, n - 1)

RECURSIVE SeqsUpTo(_, _)
SeqsUpTo(A, n) ==
    IF n = 0 THEN {<<>>}
    ELSE LET shorter == SeqsUpTo(A, n - 1)
         IN  shorter \cup {Append(s, c) : s \in shorter, c \in A}

\* Reference inputs: up to two prefixes, then a short body.
RefPrefixes == {<<>>, sPMIDlc, sPMID, sDOIuc, sDOI, sPMC, sTenDot, sBioproj}
RefBodyChars == {"7", "/", "x", "\n"}
RefInputs ==
    {p1 \o p2 \o b : p1 \in RefPrefixes, p2 \in RefPrefixes,
                     b \in SeqsUpTo(RefBodyChars, MaxBody)}

NoVrf == [input |-> None, ok |-> FALSE, fix |-> None]

\* Snippet and abstract inputs: runs of one letter around short fragments that
\* differ in case, in whitespace and in one letter; one fragment is blank.
SnippetEnds  == {<<>>, <<"b">>, <<" ", "\n", "B">>, <<"\t", " ">>}
SnippetInputs ==
    {None} \cup {Rep("a", n) \o suf : n \in 0..MaxRun, suf \in SnippetEnds}
AbstractMids == {<<>>, <<"c">>, <<" ", "b">>}
AbstractInputs ==
    {None} \cup UNION {{Rep("a", n) \o mid \o Rep("a", k) :
                            k \in {0, n}, mid \in AbstractMids} : n \in 0..MaxRun}

\* References handed to fetch_paper: one PubMed id and one DOI, each in the
\* spellings the repository's YAML files and fixers use, a project accession,
\* two more DOIs that differ in one character of the suffix, and a PMID
\* reference whose identifier holds a "/".
idPmid == <<"7">>
idPmidSlash == <<"1", "/", "2">>
idDoi  == <<"1", "0", ".", "1", "/", "x">>
idDoiSlash == idDoi \o <<"/", "y">>
idDoiUnderscore == idDoi \o <<"_", "y">>
FetchRefs ==
    {sPMID \o idPmid, idPmid, sPMIDlc \o idPmid,
     sDOI \o idDoi, sDOIuc \o idDoi, idDoi, sDoiOrg \o idDoi,
     sBioproj \o idPmid, idDoiSlash, idDoiUnderscore, sPMID \o idPmidSlash}

\* What the network may answer: a RequestException, or a body.
NetError == [ok |-> FALSE, body |-> {}]
textA == <<"a">>
textB == <<"b">>
textCR == <<"a", "\r", "\r", "\n", "b">>
urlPdf == <<"u">>
PubmedResponses == {[ok |-> FALSE, body |-> <<>>], [ok |-> TRUE, body |-> <<>>],
                    [ok |-> TRUE, body |-> textA], [ok |-> TRUE, body |-> textB],
                    [ok |-> TRUE, body |-> textCR]}
CrossrefResponses ==
    {NetError,
     [ok |-> TRUE, body |-> {<<"abstract", textA>>}],
     [ok |-> TRUE, body |-> {<<"title", textB>>}]}
UnpaywallResponses ==
    {[ok |-> FALSE, body |-> [is_oa |-> FALSE, best_oa_location |-> {}]],
     [ok |-> TRUE, body |-> [is_oa |-> FALSE, best_oa_location |-> {}]],
     [ok |-> TRUE, body |-> [is_oa |-> TRUE,
                             best_oa_location |-> {<<"url_for_pdf", urlPdf>>}]]}

\* Sentences an abstract is made of: one about other things with a number,
\* two that name Bacillus subtilis, one of them in generic wording; a species
\* description; one about other things; an affiliation line; a short sentence.
SentencePool == <<
    Chars("Microbial growth on iron and metal in acid soil needs oxygen at 5 mM"),
    Chars("Bacillus subtilis oxidized iron during growth at low oxygen levels"),
    Chars("In this study Bacillus subtilis was grown in soil under acid conditions"),
    Chars("Thiobacillus ferrooxidans sp. nov. was isolated from mine drainage water"),
    Chars("Samples were incubated at 30 degrees for two weeks before sequencing"),
    Chars("Department of Biology, University of Somewhere, contact me@example.org"),
    Chars("Iron was oxidized") >>

\* the abstract whose sentences are those of S, in the order of the pool, from
\* the k-th on; every sentence ends with a full stop
RECURSIVE AbstractFrom(_, _)
AbstractFrom(S, k) ==
    IF k > Len(SentencePool) THEN <<>>
    ELSE IF k \notin S THEN AbstractFrom(S, k + 1)
    ELSE LET rest == AbstractFrom(S, k + 1)
         IN  SentencePool[k] \o <<".">> \o
             (IF rest = <<>> THEN <<>> ELSE <<" ">> \o rest)

\* What the fetcher may hand to the snippet fixer: nothing, an empty abstract,
\* or an abstract of up to MaxSentences sentences.
FetchedAbstracts ==
    {None} \cup
    {AbstractFrom(S, 1) : S \in {S \in SUBSET (1..Len(SentencePool)) :
                                    Cardinality(S) <= MaxSentences}}

Organisms == {Chars("Bacillus subtilis"), Chars("Bacillus cereus"),
              <<>>, <<" ", " ">>}

KeywordLists == {<<>>, <<Chars("growth")>>,
                 <<Chars("growth"), Chars("iron"), Chars("metal"),
                   Chars("acid"), Chars("soil"), Chars("oxygen")>>}

\* The evidence items a suggestion is asked for: one cites a PMID and holds a
\* sentence of the source, one cites a DOI and holds the species description
\* as the snippet fixer prints it.
SuggestItems ==
    {[reference |-> sPMID \o idPmid, current_snippet |-> SentencePool[2]],
     [reference |-> sDOI \o idDoi,
      current_snippet |->
        Chars("Thiobacillus ferrooxidans sp. nov__ was isolated from mine drainage water")]}

\* ---- inputs of the evidence curator
\* The abstract and the full text of the one paper the curator looks at.
PaperAbstract == AbstractFrom({2, 3}, 1)
PaperFullText == AbstractFrom({2, 4, 5}, 1)

\* What fetch_paper may answer: an exception, or a record whose abstract is
\* missing, empty or present and whose pdf_text is missing or present.
PaperRaised == [raised |-> TRUE, abstract |-> None, pdf_text |-> None,
                title |-> None, year |-> None, journal |-> None, authors |-> <<>>]
Papers ==
    {PaperRaised} \cup
    {[raised |-> FALSE, abstract |-> a, pdf_text |-> t,
      title |-> Chars("Iron oxidation"), year |-> Chars("1999"),
      journal |-> Chars("J Bact"), authors |-> <<Chars("Doe J")>>] :
        a \in {None, <<>>, PaperAbstract}, t \in {None, PaperFullText}}

\* Snippets: missing, too short, text of the abstract, text of the full text
\* only, and text of neither.
SnipInAbstract == Chars("oxidized iron during growth")
SnipInFullText == Chars("isolated from mine drainage")
SnipNowhere    == Chars("nitrate is a key nutrient of the community")
CuratedSnippets == {<<>>, Chars("Iron"), SnipInAbstract, SnipInFullText, SnipNowhere}

\* References: canonical, of a malformed shape, and null (reference: with no
\* value in the file).
CuratedRefs == {sPMID \o idPmid, sPMIDlc \o idPmid, None}
CuratedSources == {<<>>, Chars("IN_VITRO")}
CuratedOrganisms == {None, Chars("Bacillus subtilis"), <<" ">>}
Evidences ==
    {[reference |-> r, snippet |-> sn, evidence_source |-> es] :
        r \in CuratedRefs, sn \in CuratedSnippets, es \in CuratedSources}

\* The items of a run of audits: a reference in and out of the canonical
\* form, a snippet that is missing, in the abstract or in neither text.
MaxAudits == 3   \* _audit_evidence_item calls of one curator
AuditEvidences ==
    {[reference |-> r, snippet |-> sn, evidence_source |-> Chars("IN_VITRO")] :
        r \in CuratedRefs, sn \in {<<>>, SnipInAbstract, SnipNowhere}}
AuditOrganisms == CuratedOrganisms \ {None}

\* ---- inputs of the reference validator
\* The evidence lists a community file may hold: up to MaxItems items, each
\* with or without a reference and a snippet.
YamlRefs == {None, sPMID \o idPmid, sDOI \o idDoi, sPMID \o idPmidSlash}
YamlSnippets == {None, textA}
YamlValue(x) == IF x = None THEN YNull ELSE YStr(x)
YamlItem(r, sn) ==
    YDict(<< <<"reference", YamlValue(r)>>, <<"snippet", YamlValue(sn)>> >>)
YamlItems == {YamlItem(r, sn) : r \in YamlRefs, sn \in YamlSnippets}

\* the evidence items e as the evidence list of the file itself
TopFile(e) == YDict(<< <<"evidence", YList(e)>> >>)
\* ... as the evidence list of the one taxon of a community file
CommunityFile(e) ==
    YDict(<< <<"name", YStr(textA)>>,
             <<"taxonomy", YList(<< YDict(<< <<"evidence", YList(e)>> >>) >>)>> >>)
\* ... the first in the file's own list and the others in the taxon's
SplitFile(e) ==
    YDict(<< <<"evidence", YList(<<Head(e)>>)>>,
             <<"taxonomy", YList(<< YDict(<< <<"evidence", YList(Tail(e))>> >>) >>)>> >>)
\* ... the first in the file's own list and the others in a list that the
\* first holds under "evidence"
NestedFile(e) ==
    YDict(<< <<"evidence",
               YList(<< YDict(Head(e).items \o << <<"evidence", YList(Tail(e))>> >>) >>)>> >>)

\* The files a validator is run on: up to MaxItems evidence items in each of
\* the four layouts, and an empty file.
YamlFiles ==
    {TopFile(e) : e \in SeqsUpTo(YamlItems, MaxItems)}
    \cup {CommunityFile(e) : e \in SeqsUpTo(YamlItems, MaxItems)}
    \cup {SplitFile(e) : e \in SeqsUpTo(YamlItems, MaxItems) \ {<<>>}}
    \cup {NestedFile(e) : e \in SeqsUpTo(YamlItems, MaxItems) \ {<<>>}}
    \cup {YNull}

\* Community files handed to the reference fixer: references in the spellings
\* fix_reference rewrites and in canonical spelling, an item without a
\* reference and one whose reference is null.
MaxFixRuns == 2   \* fix_yaml_file runs over one file
FixRefs == {sPMIDlc \o idPmid, sPMID \o idPmid, sDOIuc \o idDoi, Absent, None}
FixItems == {[reference |-> r, snippet |-> Absent] : r \in FixRefs}
FixEntry(n, evidence) ==
    [name |-> n, notes |-> <<>>, functional_role |-> <<>>, evidence |-> evidence]
FixSections(n, k) ==
    {<<>>} \cup {<<FixEntry(n, ev)>> : ev \in SeqsUpTo(FixItems, k) \ {<<>>}}
\* The objects of a file: every evidence item a dict of its own, or every
\* item that repeats an earlier one written as an alias of it.  oid is the
\* place, in the order of the file, where the object stands first.
ItemsOf(data) ==
    EvidenceFrom(data.taxonomy, 1) \o EvidenceFrom(data.ecological_interactions, 1)
        \o EvidenceFrom(data.environmental_factors, 1)
PlaceNumber(data, section, e, i) ==
    (IF section = "taxonomy" THEN 0
     ELSE IF section = "ecological_interactions"
     THEN Len(EvidenceFrom(data.taxonomy, 1))
     ELSE Len(EvidenceFrom(data.taxonomy, 1))
          + Len(EvidenceFrom(data.ecological_interactions, 1)))
    + Len(EvidenceFrom(SubSeq(data[section], 1, e - 1), 1)) + i
FirstEqual(items, n) == Least({k \in 1..n : items[k] = items[n]})
Loaded(data, aliased) ==
    [section \in DOMAIN data |->
        [e \in 1..Len(data[section]) |->
            [data[section][e] EXCEPT !.evidence =
                [i \in 1..Len(data[section][e].evidence) |->
                    [oid |-> IF aliased
                             THEN FirstEqual(ItemsOf(data),
                                             PlaceNumber(data, section, e, i))
                             ELSE PlaceNumber(data, section, e, i),
                     reference |-> data[section][e].evidence[i].reference,
                     snippet |-> data[section][e].evidence[i].snippet]]]]]
Objects(files) == {Loaded(d, aliased) : d \in files, aliased \in BOOLEAN}

FixNames == {"A", ""}
FixFiles ==
  Objects(
    {[taxonomy |-> t, ecological_interactions |-> i, environmental_factors |-> e] :
        t \in FixSections(<<"T">>, MaxItems)
              \cup {<<FixEntry(<<"T">>, <<a>>), FixEntry(<<"U">>, <<b>>)>> :
                       a \in FixItems, b \in FixItems},
        i \in FixSections(<<"I">>, 1), e \in FixSections(<<"E">>, 1)})

\* Community files handed to the snippet fixer: a taxonomy of one entry with up
\* to two evidence items or of two entries with one item each; the organisms
\* are Bacillus subtilis and a name that contains it; the references are a
\* PubMed id whose abstract the library holds and a DOI it holds nothing for;
\* the snippets are a short one, one that shares a word with the abstract and a
\* null one.  Further files have an entry whose name, notes or functional_role
\* is null, or whose notes and roles give context keywords.  Each file is taken
\* with every item a dict of its own and with repeated items as aliases.
MaxWorkflowRuns == 2   \* interactive_fix_workflow runs over one file
sSubtilis == Chars("Bacillus subtilis")
sSoilSubtilis == Chars("Soil Bacillus subtilis")
WorkRefs == {sPMID \o <<"1">>, sDOI \o idDoi}
WorkSnippets == {<<"x">>, Chars("subtilis takes zinc"), None}
WorkItems == {[reference |-> r, snippet |-> s] : r \in WorkRefs, s \in WorkSnippets}
WorkEntries(k) ==
    {FixEntry(n, ev) : n \in {sSubtilis, sSoilSubtilis},
                       ev \in SeqsUpTo(WorkItems, k) \ {<<>>}}
WorkEntry(n, notes, roles, evidence) ==
    [name |-> n, notes |-> notes, functional_role |-> roles, evidence |-> evidence]
itemHeld == [reference |-> sPMID \o <<"1">>, snippet |-> <<"x">>]
itemUnheld == [reference |-> sDOI \o idDoi, snippet |-> <<"x">>]
NullEntries ==
    {<<FixEntry(None, <<itemHeld>>), FixEntry(sSubtilis, <<itemHeld>>)>>,
     <<FixEntry(None, <<itemUnheld>>), FixEntry(sSubtilis, <<itemHeld>>)>>,
     <<FixEntry(None, <<>>), FixEntry(sSubtilis, <<itemHeld>>)>>,
     <<FixEntry(sSubtilis, <<itemHeld>>), FixEntry(None, <<itemUnheld>>)>>,
     <<WorkEntry(sSubtilis, None, <<>>, <<itemHeld>>)>>,
     <<WorkEntry(sSubtilis, <<>>, None, <<itemHeld>>)>>,
     <<WorkEntry(sSubtilis, Chars("Takes up iron at low pH"), <<"CONSUMER", "OTHER">>,
                 <<itemHeld>>)>>}
WorkFiles ==
  Objects(
    {[taxonomy |-> t, ecological_interactions |-> <<>>, environmental_factors |-> <<>>] :
        t \in {<<e>> : e \in WorkEntries(MaxItems)}
              \cup {<<e, f>> : e \in WorkEntries(1), f \in WorkEntries(1)}
              \cup NullEntries})

\* the abstract the fetcher holds for the PubMed id: a sentence that names
\* Bacillus subtilis and one about other things with a verb of findings.  The
\* words of five letters or more are few, in the sentences as in the
\* snippets: they become context keywords, which a run hands on in any order.
WorkSentences == <<
    Chars("Bacillus subtilis took up iron and zinc at low pH in acid mud"),
    Chars("The rods were found at 30 C for two days in the dark and cold") >>
WorkLibrary ==
    <<"fetch_pubmed_abstract", <<"1">>>> :>
        (WorkSentences[1] \o <<".", " ">> \o WorkSentences[2] \o <<".">>)

\* the lines the terminal holds for a run of the interactive review; input()
\* of a terminal without a line left ends in EOFError
WorkScripts ==
    {<<>>, <<<<"1">>, <<"1">>>>, <<<<"s">>, <<"Q">>>>, <<<<"v">>, <<"2">>, <<"x">>>>,
     <<<<"+", "1">>, <<"0", "_", "1">>>>, <<<<"v">>, <<"v">>, <<" ">>>>}

\* the arguments of a run: the terminal is read only without --auto-approve
WorkRuns ==
    {[p |-> [name |-> "A", only_invalid |-> o, auto_approve |-> a, relaxed |-> r,
             library |-> WorkLibrary],
      script |-> t] :
        o \in BOOLEAN, a \in BOOLEAN, r \in BOOLEAN, t \in WorkScripts}
WorkCalls ==
    {c \in WorkRuns : IF c.p.auto_approve THEN c.script = <<>>
                      ELSE ~c.p.relaxed}

\* ---- inputs of the batch fixer
\* The directory holds A.yaml and B.yaml, C.yaml is missing; a file has one
\* item: one with a suggestion, one without, or one whose snippet is null.
MaxBatchFiles == 3   \* names in the file list of a batch
BatchNames == {"A", "B", "C"}
BatchData ==
  Objects(
    {[taxonomy |-> <<FixEntry(sSubtilis, <<[reference |-> r, snippet |-> sn]>>)>>,
      ecological_interactions |-> <<>>, environmental_factors |-> <<>>] :
        r \in {sPMID \o <<"1">>}, sn \in {<<"x">>, None}}
    \cup {[taxonomy |-> <<FixEntry(sSubtilis,
                            <<[reference |-> sDOI \o idDoi, snippet |-> <<"x">>]>>)>>,
           ecological_interactions |-> <<>>, environmental_factors |-> <<>>]})
BatchDisks ==
    {(YamlPath("A") :> Authored(a)) @@ (YamlPath("B") :> Authored(b)) :
        a \in BatchData, b \in BatchData}
BatchLists == SeqsUpTo(BatchNames, MaxBatchFiles)
BatchScripts ==
    {<<>>, <<<<"1">>, <<"1">>>>, <<<<"v">>, <<"1">>, <<>>, <<"v">>, <<"s">>>>,
     <<<<"1">>, <<"1">>, <<>>, <<"s">>, <<"s">>, <<>>, <<"1">>, <<"1">>>>}
BatchCalls ==
    {c \in [p : {[name |-> "", only_invalid |-> o, auto_approve |-> a,
                  relaxed |-> r, library |-> WorkLibrary] :
                     o \in BOOLEAN, a \in BOOLEAN, r \in BOOLEAN},
            script : BatchScripts] :
        IF c.p.auto_approve THEN c.script = <<>> ELSE ~c.p.relaxed}

-----------------------------------------------------------------------------
(* State machines *)

NoSuggest == [organism |-> None, reference |-> None, fetched |-> None,
              current_snippet |-> None,
              context_keywords |-> <<>>, raised |-> FALSE, result |-> NoSuggestion,
              done |-> FALSE]

NoCurate == [kind |-> "none", evidence |-> [reference |-> None, snippet |-> None,
                                            evidence_source |-> None],
             organism |-> None, fetch_pdf |-> FALSE, paper |-> PaperRaised,
             called |-> FALSE, validation |-> DefaultValidation,
             validated |-> <<>>, issues |-> <<>>, stats |-> NoStats,
             exception |-> "none", audits |-> 0, raises |-> 0, done |-> FALSE]

NoValidation == [data |-> YNull, calls |-> 0, returned |-> FALSE,
                 result |-> FALSE, before |-> <<>>,
                 v |-> [errors |-> <<>>, warnings |-> <<>>, validated |-> <<>>,
                        log |-> <<>>, cache |-> <<>>, net |-> <<>>,
                        failed |-> FALSE, abstract |-> None, raised |-> FALSE]]

NoFix == [disk |-> <<>>, start |-> <<>>, name |-> "", dry_run |-> TRUE,
          raised |-> FALSE, changes |-> <<>>, count |-> 0, runs |-> 0]

NoWorkflow == [disk |-> <<>>, start |-> <<>>, copied |-> <<>>,
               p |-> [name |-> "", only_invalid |-> FALSE, auto_approve |-> FALSE,
                      relaxed |-> FALSE, library |-> <<>>],
               script |-> <<>>, typed |-> <<>>, pc |-> "idle", items |-> <<>>,
               k |-> 1, pending |-> NoSuggestion, applied |-> 0, skipped |-> 0,
               failed |-> 0, quit |-> FALSE, raised |-> FALSE,
               exception |-> "none", log |-> <<>>, runs |-> 0]

NoBatch == [start |-> <<>>, files |-> <<>>, i |-> 1, pc |-> "files",
            p |-> [name |-> "", only_invalid |-> FALSE, auto_approve |-> FALSE,
                   relaxed |-> FALSE, library |-> <<>>],
            results |-> <<>>, raised |-> FALSE, exception |-> "none",
            done |-> FALSE]

NoCall == [ref |-> None, result |-> <<None, None>>, hit |-> FALSE, net |-> <<>>,
           file |-> None, failed |-> FALSE, kind |-> "none", cached |-> FileOfText(None),
           upFailed |-> FALSE, raised |-> FALSE]

\* calls for a reference that went to the network so far
Resolutions(reference) ==
    IF reference \in DOMAIN netTotal THEN netTotal[reference] ELSE 0

IdleRef ==
    /\ ref = None /\ original = None /\ changed = FALSE /\ runs = 0
    /\ firstFix = None /\ vrf = NoVrf
IdleSnippet == snippet = None /\ abstract = None /\ verdict = "none"
IdleFetch ==
    /\ cache = <<>> /\ netTotal = <<>> /\ firstResult = <<>> /\ keyOf = <<>>
    /\ last = NoCall /\ nCalls = 0
IdleSuggest == sug = NoSuggest
IdleCurate == cur = NoCurate
IdleValidator == val = NoValidation
IdleTools == fx = NoFix /\ wf = NoWorkflow /\ bat = NoBatch
IdleLater == IdleSuggest /\ IdleCurate /\ IdleValidator /\ IdleTools

\* ---- SpecRef: one evidence item's reference under the reference fixer

InitRef ==
    /\ original \in RefInputs
    /\ ref = original
    /\ changed = FALSE
    /\ runs = 0
    /\ firstFix = None
    /\ vrf = NoVrf
    /\ IdleSnippet
    /\ IdleFetch
    /\ IdleLater

\* fix_yaml_file in apply mode: fixed, changed = fix_reference(ev['reference']);
\* ev['reference'] = fixed
FixReference ==
    /\ runs < MaxRuns
    /\ LET f == fix_reference(ref)
       IN  /\ ref' = f.ref
           /\ changed' = f.was_changed
           /\ firstFix' = IF runs = 0 THEN f.ref ELSE firstFix
    /\ runs' = runs + 1
    /\ UNCHANGED <<original, vrf, snipVars, fetchVars, laterVars>>

\* EvidenceCurator.validate_reference_format(ev['reference'])
ValidateReferenceFormat ==
    /\ vrf.input # ref
    /\ LET v == validate_reference_format(ref)
       IN  vrf' = [input |-> ref, ok |-> v.ok, fix |-> v.fix]
    /\ UNCHANGED <<ref, original, changed, runs, firstFix, snipVars, fetchVars, laterVars>>

NextRef == FixReference \/ ValidateReferenceFormat

SpecRef == InitRef /\ [][NextRef]_vars

\* ---- SpecSnippet: one validate_evidence_snippet call

InitSnippet ==
    /\ snippet \in SnippetInputs
    /\ abstract \in AbstractInputs
    /\ verdict = "none"
    /\ IdleRef
    /\ IdleFetch
    /\ IdleLater

ValidateEvidenceSnippet ==
    /\ verdict = "none"
    /\ verdict' = IF validate_evidence_snippet(snippet, abstract)
                  THEN "valid" ELSE "invalid"
    /\ UNCHANGED <<snippet, abstract, refVars, fetchVars, laterVars>>

NextSnippet == ValidateEvidenceSnippet

SpecSnippet == InitSnippet /\ [][NextSnippet]_vars

\* ---- Spec: fetch_paper calls of successive processes over one cache directory

Init ==
    /\ cache = <<>>
    /\ netTotal = <<>>
    /\ firstResult = <<>>
    /\ keyOf = <<>>
    /\ last = NoCall
    /\ nCalls = 0
    /\ IdleRef
    /\ IdleSnippet
    /\ IdleLater

\* The answers the endpoints hold ready for one call: only the endpoints the
\* call's branch can reach get more than one.
NetworkAnswers(reference) ==
    IF ReferenceKind(reference) = "pmid"
    THEN {[pubmed |-> pm, unpaywall |-> NetError, crossref |-> NetError] :
            pm \in PubmedResponses}
    ELSE IF ReferenceKind(reference) = "doi"
    THEN {[pubmed |-> NetError, unpaywall |-> up, crossref |-> cr] :
            up \in UnpaywallResponses, cr \in CrossrefResponses}
    ELSE {[pubmed |-> NetError, unpaywall |-> NetError, crossref |-> NetError]}

\* LiteratureFetcher.fetch_paper(reference), with the answers the network gives
\* to the requests the call makes
FetchPaper ==
    /\ nCalls < MaxCalls
    /\ \E reference \in FetchRefs :
         \E rs \in NetworkAnswers(reference) :
           \E out \in {fetch_paper(cache, reference, rs)} :
              /\ cache' = out.cache
              /\ netTotal' = (reference :> (Resolutions(reference)
                                              + IF out.net # <<>> THEN 1 ELSE 0))
                              @@ netTotal
              /\ firstResult' = IF reference \in DOMAIN firstResult THEN firstResult
                                ELSE (reference :> out.result) @@ firstResult
              /\ keyOf' = (reference :> out.file) @@ keyOf
              /\ last' = [ref |-> reference, result |-> out.result, hit |-> out.hit,
                          net |-> out.net, file |-> out.file, failed |-> out.failed,
                          kind |-> out.kind, upFailed |-> out.upFailed,
                          raised |-> out.raised,
                          cached |-> IF out.hit THEN cache[out.file]
                                     ELSE FileOfText(None)]
    /\ nCalls' = nCalls + 1
    /\ UNCHANGED <<refVars, snipVars, laterVars>>

\* The process ends and a new one constructs LiteratureFetcher over the same
\* cache_dir: mkdir(exist_ok=True) keeps the files, nothing else survives.
Restart ==
    /\ last # NoCall
    /\ last' = NoCall
    /\ UNCHANGED <<cache, netTotal, firstResult, keyOf, nCalls, refVars, snipVars,
                   laterVars>>

Next == FetchPaper \/ Restart

Spec == Init /\ [][Next]_vars

\* ---- SpecSuggest: one suggest_snippets_for_evidence call

InitSuggest ==
    /\ IdleRef
    /\ IdleSnippet
    /\ IdleFetch
    /\ IdleLater

SuggestSnippets ==
    /\ ~sug.done
    /\ \E organism \in Organisms, item \in SuggestItems,
          fetched \in FetchedAbstracts, context_keywords \in KeywordLists :
          \E r \in {suggest_snippets_for_evidence(organism, item.reference, fetched,
                                                  item.current_snippet,
                                                  context_keywords)} :
              sug' = [organism |-> organism, reference |-> item.reference,
                      fetched |-> fetched,
                      current_snippet |-> item.current_snippet,
                      context_keywords |-> context_keywords,
                      raised |-> r.raised, result |-> r.result, done |-> TRUE]
    /\ UNCHANGED <<refVars, snipVars, fetchVars, curVars, valVars,
                   toolVars>>

NextSuggest == SuggestSnippets

SpecSuggest == InitSuggest /\ [][NextSuggest]_vars

\* ---- SpecCurate: one call of the evidence curator on one evidence item,
\* either the audit of the item or the validation alone

InitCurate ==
    /\ IdleRef /\ IdleSnippet /\ IdleFetch /\ IdleSuggest
    /\ IdleValidator /\ IdleTools
    /\ \E e \in Evidences, o \in CuratedOrganisms, f \in BOOLEAN, p \in Papers :
          cur = [NoCurate EXCEPT !.evidence = e, !.organism = o,
                                 !.fetch_pdf = f, !.paper = p]

AuditEvidenceItem ==
    /\ ~cur.done
    /\ cur.organism # None
    /\ \E r \in {_audit_evidence_item(cur.evidence, cur.organism, cur.fetch_pdf,
                                       cur.paper)} :
          cur' = [cur EXCEPT !.kind = "audit", !.called = r.called,
                             !.validation = r.validation,
                             !.validated = r.validated, !.issues = r.issues,
                             !.stats = r.stats, !.exception = r.exception,
                             !.done = TRUE]
    /\ UNCHANGED <<refVars, snipVars, fetchVars, sugVars, valVars,
                   toolVars>>

FetchAndValidateEvidence ==
    /\ ~cur.done
    /\ \E r \in {fetch_and_validate_evidence(cur.paper, cur.evidence.snippet,
                                              cur.organism, cur.fetch_pdf)} :
          cur' = [cur EXCEPT !.kind = "validate", !.called = TRUE,
                             !.validation = r.out, !.validated = r.validated,
                             !.done = TRUE]
    /\ UNCHANGED <<refVars, snipVars, fetchVars, sugVars, valVars,
                   toolVars>>

NextCurate == AuditEvidenceItem \/ FetchAndValidateEvidence

SpecCurate == InitCurate /\ [][NextCurate]_vars

\* ---- SpecAudit: the _audit_evidence_item calls of one EvidenceCurator, whose
\* stats add up over the calls; raises counts the calls whose fetch raised

InitAudit ==
    /\ IdleRef /\ IdleSnippet /\ IdleFetch /\ IdleSuggest
    /\ IdleValidator /\ IdleTools
    /\ cur = NoCurate

AuditNextItem ==
    /\ cur.audits < MaxAudits
    /\ \E e \in AuditEvidences, o \in AuditOrganisms, f \in BOOLEAN, p \in Papers :
          \E r \in {_audit_evidence_item(e, o, f, p)} :
              cur' = [cur EXCEPT !.kind = "audit",
                                 !.stats = AddStats(cur.stats, r.stats),
                                 !.exception = r.exception,
                                 !.audits = @ + 1,
                                 !.raises = @ + IF r.called /\ r.raised THEN 1 ELSE 0]
    /\ UNCHANGED <<refVars, snipVars, fetchVars, sugVars, valVars,
                   toolVars>>

NextAudit == AuditNextItem

SpecAudit == InitAudit /\ [][NextAudit]_vars

\* ---- SpecValidator: validate_yaml_file calls of one ReferenceValidator on
\* one community file, over the cache_dir of its fetcher

\* A validator before validate_yaml_file looks at the first item.
FreshValidator(c) ==
    [errors |-> <<>>, warnings |-> <<>>, validated |-> <<>>, log |-> <<>>,
     cache |-> c, net |-> <<>>, failed |-> FALSE, abstract |-> None,
     raised |-> FALSE]

\* log keeps, per item looked at, whether a request of its fetch failed and
\* the abstract fetch_paper gave
Logged(w) == [w EXCEPT !.log = Append(@, [failed |-> w.failed, abstract |-> w.abstract])]

\* the reference of an item, None where it holds no string
ItemReference(item) ==
    IF item.data.kind = "dict" THEN Scalar(YGet(item.data, "reference")) ELSE None

\* for item in evidence_items: self._validate_evidence_item(item), from the
\* k-th item on: the validators the loop can end in, one for every way the
\* network may answer; an exception ends the loop.
RECURSIVE ValidateItems(_, _, _)
ValidateItems(v, items, k) ==
    IF v.raised \/ k > Len(items) THEN {v}
    ELSE UNION {ValidateItems(Logged(_validate_evidence_item(v, items[k], v.cache, rs)),
                              items, k + 1) :
                rs \in NetworkAnswers(ItemReference(items[k]))}

\* ReferenceValidator.validate_yaml_file(yaml_path) -> bool, for the data the
\* file holds: the validators the call can end in, each with the value
\* returned (none when the call ended in an exception)
validate_yaml_file(data, c) ==
    {[v |-> v, returned |-> ~v.raised, result |-> ~v.raised /\ Len(v.errors) = 0] :
        v \in ValidateItems(FreshValidator(c), _collect_evidence(data), 1)}

InitValidator ==
    /\ IdleRef /\ IdleSnippet /\ IdleFetch /\ IdleSuggest
    /\ IdleCurate /\ IdleTools
    /\ \E d \in YamlFiles : val = [NoValidation EXCEPT !.data = d]

\* validate_yaml_file(yaml_path); before keeps self.errors as the call found them
ValidateYamlFile ==
    /\ val.calls < MaxValidations
    /\ ~val.v.raised
    /\ \E r \in validate_yaml_file(val.data, cache) :
          /\ val' = [val EXCEPT !.calls = @ + 1, !.returned = r.returned,
                                !.result = r.result, !.before = val.v.errors,
                                !.v = r.v]
          /\ cache' = r.v.cache
    /\ UNCHANGED <<netTotal, firstResult, keyOf, last, nCalls, refVars, snipVars,
                   sugVars, curVars, toolVars>>

NextValidator == ValidateYamlFile

SpecValidator == InitValidator /\ [][NextValidator]_vars

\* ---- SpecFixFile: runs of fix_reference_formats.py over one community file

InitFixFile ==
    /\ IdleRef /\ IdleSnippet /\ IdleFetch /\ IdleSuggest
    /\ IdleCurate /\ IdleValidator
    /\ \E d \in FixFiles, n \in FixNames :
          fx = [NoFix EXCEPT !.disk = YamlPath(n) :> Authored(d), !.name = n]
    /\ wf = NoWorkflow /\ bat = NoBatch

\* main: fix_yaml_file(yaml_path, dry_run=not args.apply) for a file of the
\* directory; start keeps the directory as the run found it
FixYamlFile ==
    /\ fx.runs < MaxFixRuns
    /\ ~fx.raised
    /\ \E dry_run \in BOOLEAN :
         \E r \in {fix_yaml_file(fx.disk, fx.name, dry_run)} :
            fx' = [disk |-> r.disk, start |-> fx.disk, name |-> fx.name,
                   dry_run |-> dry_run, raised |-> r.raised,
                   changes |-> r.changes, count |-> r.count,
                   runs |-> fx.runs + 1]
    /\ UNCHANGED <<refVars, snipVars, fetchVars, sugVars, curVars,
                   valVars, wf, bat>>

NextFixFile == FixYamlFile

SpecFixFile == InitFixFile /\ [][NextFixFile]_vars

\* ---- SpecWorkflow: runs of intelligent_snippet_fixer.py over one community file

InitWorkflow ==
    /\ IdleRef /\ IdleSnippet /\ IdleFetch /\ IdleSuggest
    /\ IdleCurate /\ IdleValidator
    /\ fx = NoFix /\ bat = NoBatch
    /\ \E d \in WorkFiles, c \in WorkCalls :
          wf = [NoWorkflow EXCEPT !.disk = YamlPath("A") :> Authored(d),
                                  !.p = c.p, !.script = c.script]

workflowRest == <<refVars, snipVars, fetchVars, sugVars, curVars, valVars, fx, bat>>

\* main: interactive_fix_workflow(yaml_path, ...) on the file, up to the head
\* of the loop; the terminal holds the lines of the script again
StartWorkflow ==
    /\ wf.pc = "idle" /\ wf.runs < MaxWorkflowRuns
    /\ wf' = interactive_fix_workflow(wf, wf.p, wf.script)
    /\ UNCHANGED workflowRest

\* one pass of the for loop, up to its first input() or to its end
ProcessItem ==
    /\ wf.pc = "loop" /\ ~wf.quit /\ wf.k <= Len(wf.items)
    /\ wf' \in ItemStep(wf.items[wf.k], wf)
    /\ UNCHANGED workflowRest

\* input() at "Enter number to apply, [S]kip, [V]iew abstract, [Q]uit" returns
\* a line or ends in EOFError
AnswerPrompt ==
    /\ wf.pc = "prompt"
    /\ wf' = IF wf.typed = <<>> THEN WorkflowRaised(wf, "EOFError")
             ELSE FirstPrompt(wf.items[wf.k], Read(wf), wf.pending, Typed(wf))
    /\ UNCHANGED workflowRest

\* input() at "Enter number to apply, [S]kip, [Q]uit" after the abstract
AnswerViewPrompt ==
    /\ wf.pc = "view"
    /\ wf' = IF wf.typed = <<>> THEN WorkflowRaised(wf, "EOFError")
             ELSE SecondPrompt(wf.items[wf.k], Read(wf), wf.pending, Typed(wf))
    /\ UNCHANGED workflowRest

\* input() at "Press Enter to continue..." after an item without a suggestion
PressEnter ==
    /\ wf.pc = "enter"
    /\ wf' = IF wf.typed = <<>> THEN WorkflowRaised(wf, "EOFError")
             ELSE [Read(wf) EXCEPT !.pc = "loop"]
    /\ UNCHANGED workflowRest

\* Ctrl-C while the workflow waits in input(): KeyboardInterrupt
Interrupt ==
    /\ wf.pc \in {"prompt", "view", "enter"}
    /\ wf' = WorkflowRaised(wf, "KeyboardInterrupt")
    /\ UNCHANGED workflowRest

\* after the loop: the summary, and the return
Summarize ==
    /\ wf.pc = "loop" /\ (wf.quit \/ wf.k > Len(wf.items))
    /\ wf' = Returned(Summary(wf))
    /\ UNCHANGED workflowRest

WorkflowStep ==
    \/ ProcessItem
    \/ AnswerPrompt
    \/ AnswerViewPrompt
    \/ PressEnter
    \/ Interrupt
    \/ Summarize

NextWorkflow == StartWorkflow \/ WorkflowStep

SpecWorkflow == InitWorkflow /\ [][NextWorkflow]_vars

\* ---- SpecBatch: one process_files_batch call over the directory

InitBatch ==
    /\ IdleRef /\ IdleSnippet /\ IdleFetch /\ IdleSuggest
    /\ IdleCurate /\ IdleValidator
    /\ fx = NoFix
    /\ \E d \in BatchDisks, l \in BatchLists, c \in BatchCalls :
          /\ wf = [NoWorkflow EXCEPT !.disk = d, !.script = c.script,
                                     !.typed = c.script]
          /\ bat = [NoBatch EXCEPT !.start = d, !.files = l, !.p = c.p]

batchRest == <<refVars, snipVars, fetchVars, sugVars, curVars, valVars, fx>>

\* the head of the for loop: a missing file is recorded as not_found and the
\* loop continues; for any other file interactive_fix_workflow is called
NextFile ==
    /\ ~bat.done /\ bat.pc = "files" /\ bat.i <= Len(bat.files)
    /\ IF YamlPath(bat.files[bat.i]) \notin DOMAIN wf.disk
       THEN /\ bat' = [Recorded(bat, bat.files[bat.i], "not_found") EXCEPT
                       !.i = @ + 1, !.pc = "files"]
            /\ wf' = wf
       ELSE /\ bat' = [bat EXCEPT !.pc = "workflow"]
            /\ wf' = interactive_fix_workflow(wf,
                        [bat.p EXCEPT !.name = bat.files[bat.i]], wf.typed)
    /\ UNCHANGED batchRest

\* interactive_fix_workflow has returned or raised
WorkflowEnded ==
    /\ ~bat.done /\ bat.pc = "workflow" /\ wf.pc = "idle"
    /\ bat' = FileDone(bat, wf)
    /\ UNCHANGED <<batchRest, wf>>

\* input() at "Press Enter to continue to next file" returns a line or ends
\* in EOFError, which leaves process_files_batch
AnswerPause ==
    /\ ~bat.done /\ bat.pc = "pause"
    /\ IF wf.typed = <<>>
       THEN bat' = BatchRaised(bat, "EOFError") /\ wf' = wf
       ELSE bat' = [bat EXCEPT !.i = @ + 1, !.pc = "files"] /\ wf' = Read(wf)
    /\ UNCHANGED batchRest

\* Ctrl-C during the pause
InterruptPause ==
    /\ ~bat.done /\ bat.pc = "pause"
    /\ bat' = BatchRaised(bat, "KeyboardInterrupt")
    /\ UNCHANGED <<batchRest, wf>>

\* after the loop: the summary is printed and the call returns
BatchSummary ==
    /\ ~bat.done /\ bat.pc = "files" /\ bat.i > Len(bat.files)
    /\ bat' = [bat EXCEPT !.done = TRUE]
    /\ UNCHANGED <<batchRest, wf>>

NextBatch ==
    \/ NextFile
    \/ WorkflowStep
    \/ WorkflowEnded
    \/ AnswerPause
    \/ InterruptPause
    \/ BatchSummary

SpecBatch == InitBatch /\ [][NextBatch]_vars

-----------------------------------------------------------------------------
(* Reference normalisation: C1 - C3 *)

\* The recognized malformed shapes and the canonical form documented for each.
LowerPmidShape(r) == StartsWith(r, sPMIDlc)
UpperDoiShape(r)  == StartsWith(r, sDOIuc)
BarePmcShape(r)   == StartsWith(r, sPMC) /\ isdigit(Drop(r, 3))
\* a bare DOI 10.x/y: "10.", a registrant x of one character or more, "/", and
\* a suffix y of one character or more
BareDoiShape(r) ==
    /\ StartsWith(r, sTenDot)
    /\ \E k \in 5..(Len(r) - 1) :
          r[k] = "/" /\ \A j \in 4..(k - 1) : r[j] \notin {"/", "\n"}
Malformed(r) ==
    LowerPmidShape(r) \/ UpperDoiShape(r) \/ BarePmcShape(r) \/ BareDoiShape(r)
CanonicalForm(r) ==
    IF LowerPmidShape(r) THEN sPMID \o Drop(r, 5)
    ELSE IF UpperDoiShape(r) THEN sDOI \o Drop(r, 4)
    ELSE IF BarePmcShape(r) THEN sPMID \o r
    ELSE sDOI \o r
Unrecognized(r) == ~MatchSchemaPrefix(r) /\ ~Malformed(r)

\* C1: a reference of a recognized malformed shape (pmid:X, DOI:X, PMC<digits>,
\* bare DOI 10.x/y) is rewritten to its canonical form by fix_reference, and
\* validate_reference_format rejects it suggesting that same canonical form.
C1_CanonicalForm ==
    /\ (runs = 1 /\ Malformed(original)) =>
          (ref = CanonicalForm(original) /\ changed)
    /\ (vrf.input = original /\ Malformed(original)) =>
          (~vrf.ok /\ vrf.fix = CanonicalForm(original))

\* C2: a reference that is neither canonical nor of a recognized malformed shape
\* is never passed through as if valid: fix_reference's outcome for it differs
\* from its outcome for a valid reference (returned unchanged, was_changed false).
C2_UnrecognizedRejected ==
    (runs = 1 /\ Unrecognized(original)) => ~(ref = original /\ ~changed)

\* C3: a second fix_reference pass changes nothing, and a canonical reference is
\* returned unchanged with was_changed = false.
C3_Idempotent ==
    /\ runs >= 2 => (ref = firstFix /\ ~changed)
    /\ (runs >= 1 /\ MatchSchemaPrefix(original)) => (ref = original /\ ~changed)

\* The first pass rewrote the reference and the second pass kept the result.
C3_Witness == runs = 2 /\ firstFix # original /\ ref = firstFix /\ ~changed

-----------------------------------------------------------------------------
(* Snippet validation: C4 - C6 *)

\* whitespace-collapsed, case-folded text
NormalizedText(s) == Lower(JoinSplit(s))

BothPresent == Truthy(snippet) /\ Truthy(abstract)

\* with m matching characters: similarity ratio > 0.95, = 0.95
RatioOver(m, a, b)  == 2 * m * RatioDen > RatioNum * (Len(a) + Len(b))
RatioEqual(m, a, b) == 2 * m * RatioDen = RatioNum * (Len(a) + Len(b))

\* C4: for a non-empty snippet and source the verdict is valid exactly when the
\* normalized snippet is a contiguous substring of the normalized source or
\* their similarity ratio is strictly greater than 0.95.
C4_ValidIff ==
    (verdict # "none" /\ BothPresent) =>
        (verdict = "valid" <=>
            \/ Contains(NormalizedText(abstract), NormalizedText(snippet))
            \/ RatioAbove(NormalizedText(snippet), NormalizedText(abstract)))

\* A snippet found only after whitespace and case normalisation is valid.
C4_Witness ==
    /\ verdict = "valid" /\ BothPresent
    /\ ~Contains(abstract, snippet)
    /\ Contains(NormalizedText(abstract), NormalizedText(snippet))

\* C5 as stated: a snippet whose similarity ratio to the source is at least
\* 0.95, exactly 0.95 included, is reported valid.
C5_AtLeastValid ==
    (verdict # "none" /\ BothPresent) =>
        LET sn == NormalizedText(snippet)
            an == NormalizedText(abstract)
        IN  \E m \in {Matches(sn, an)} :
               (RatioOver(m, sn, an) \/ RatioEqual(m, sn, an)) => verdict = "valid"

\* C5 amended: a ratio strictly above 0.95 makes the snippet valid; at a ratio
\* of exactly 0.95 a snippet that is not a substring of the source is invalid.
C5_StrictlyAbove ==
    (verdict # "none" /\ BothPresent) =>
        LET sn == NormalizedText(snippet)
            an == NormalizedText(abstract)
        IN  /\ verdict = "valid" \/ ~RatioOver(Matches(sn, an), sn, an)
            /\ verdict = "invalid" \/ Contains(an, sn)
                  \/ ~RatioEqual(Matches(sn, an), sn, an)

\* Both cases occur: here a snippet at exactly 0.95 that was reported invalid.
C5_Witness ==
    /\ verdict = "invalid" /\ BothPresent
    /\ RatioEqual(Matches(NormalizedText(snippet), NormalizedText(abstract)),
                  NormalizedText(snippet), NormalizedText(abstract))

\* C6: a missing (None) or empty snippet or source is always invalid.
C6_MissingInvalid ==
    (verdict # "none" /\ ~BothPresent) => verdict = "invalid"

\* An empty snippet was checked against a non-empty source and rejected.
C6_Witness == verdict = "invalid" /\ snippet = <<>> /\ Truthy(abstract)

-----------------------------------------------------------------------------
(* The cache: C7 - C10 *)

\* the abstract a cache file yields to fetch_paper
CachedAbstract(kind, file) ==
    IF kind = "pmid" THEN file.text
    ELSE IF file.json # {} THEN DictGet(file.json, "abstract") ELSE None

\* C7: a fetch_paper call for a PMID or DOI reference that finds its cache entry
\* makes no network request and returns the cached content.
C7_HitNoNetwork ==
    (last.kind \in {"pmid", "doi"} /\ last.hit) =>
        /\ last.net = <<>>
        /\ last.result[1] = CachedAbstract(last.kind, last.cached)

\* C8: over all calls for one reference, in one process or several, the network
\* is invoked at most once, and every call returns what the first returned.
C8_AtMostOneResolution ==
    \A r \in DOMAIN netTotal :
        /\ netTotal[r] <= 1
        /\ last.ref = r => last.result = firstResult[r]

\* C9: after a call whose network request for the document failed, the cache
\* holds an entry for the reference.
C9_FailureCached == last.failed => last.file \in DOMAIN cache

\* C10: references that normalize to the same canonical reference address the
\* same cache entry.
C10_CanonicalKey ==
    \A r1, r2 \in DOMAIN keyOf :
        fix_reference(r1).ref = fix_reference(r2).ref => keyOf[r1] = keyOf[r2]

-----------------------------------------------------------------------------
(* Fetch cascade: C11 *)

\* the requests the last fetch_paper call sent, in call order
Invoked(call, source) == \E k \in 1..Len(call.net) : call.net[k] = source

\* C11: the sources of a DOI are tried in the order Unpaywall, CrossRef; when
\* Unpaywall, the source of higher priority, yields a document location, the
\* call stops there and sends no request to CrossRef.
C11_FirstSuccessStops ==
    (last.kind = "doi" /\ Truthy(last.result[2])) => ~Invoked(last, "crossref")

-----------------------------------------------------------------------------
(* Failures of the sources: C12 *)

\* the reference is one fetch_paper recognises
Recognized(call) == call.kind \in {"pmid", "doi"}

\* every source the call depends on failed
AllSourcesFailed(call) ==
    call.failed /\ (call.kind = "doi" => call.upFailed)

\* C12: for a recognised reference fetch_paper returns and never raises,
\* whatever the requests come to; when the Unpaywall request fails, the CrossRef
\* metadata is still looked up (in the cache or by a request), and when every
\* source fails the caller receives (None, None).
C12_FailuresAbsorbed ==
    Recognized(last) =>
        /\ ~last.raised
        /\ (last.upFailed =>
                last.hit \/ \E k \in 1..Len(last.net) : last.net[k] = "crossref")
        /\ (AllSourcesFailed(last) => last.result = <<None, None>>)

-----------------------------------------------------------------------------
(* Snippet suggestions: C13 - C17 *)

\* the candidate sentences of the call's abstract: those that pass the filter
Candidates == IF Truthy(sug.fetched) THEN FilteredSentences(sug.fetched) ELSE <<>>

\* the positions of the candidates that contain the exact topic string
TopicSentences ==
    {k \in 1..Len(Candidates) : Contains(Lower(Candidates[k]), Lower(sug.organism))}

\* a sentence that is unrelated to the topic: it holds no word of the topic string
Unrelated(sent) ==
    LET parts == Words(Lower(sug.organism))
    IN  \A w \in 1..Len(parts) : ~Contains(Lower(sent), parts[w])

\* exactly one candidate contains the topic string, the others are unrelated
OneTopicSentence ==
    /\ sug.done
    /\ Cardinality(TopicSentences) = 1
    /\ \A k \in (1..Len(Candidates)) \ TopicSentences : Unrelated(Candidates[k])

TopicSentence == Candidates[CHOOSE k \in TopicSentences : TRUE]

HasGenericTerm(sent) == \E g \in generic_terms : Contains(Lower(sent), g)

HasKeyword(sent) ==
    \E k \in 1..Len(sug.context_keywords) :
        Contains(Lower(sent), Lower(sug.context_keywords[k]))

TopicFirstAndHigh ==
    /\ ~sug.raised
    /\ sug.result # NoSuggestion
    /\ sug.result.suggested_snippets[1] = TopicSentence
    /\ sug.result.confidence = "high"

\* C13 as stated: when exactly one candidate sentence contains the exact topic
\* string and all other sentences are unrelated to the topic, the topic
\* sentence is the first suggestion and the confidence is high, whatever the
\* context keywords and the wording of the sentences.
C13_TopicFirstHigh == OneTopicSentence => TopicFirstAndHigh

\* C13, amended: when the topic string holds at least one word, exactly one
\* candidate sentence contains it, that sentence holds no generic term, and
\* every other candidate holds neither a word of the topic string nor a
\* context keyword, the topic sentence is the first suggestion and the
\* confidence is high.
C13_TopicFirstHighPlain ==
    ( /\ OneTopicSentence
      /\ Words(Lower(sug.organism)) # <<>>
      /\ ~HasGenericTerm(TopicSentence)
      /\ \A k \in (1..Len(Candidates)) \ TopicSentences : ~HasKeyword(Candidates[k]) )
    => TopicFirstAndHigh

\* a call whose abstract holds the topic sentence behind an unrelated
\* candidate, and the topic sentence came out first
C13_Witness ==
    /\ OneTopicSentence
    /\ Words(Lower(sug.organism)) # <<>>
    /\ ~HasGenericTerm(TopicSentence)
    /\ Len(Candidates) >= 2
    /\ Candidates[1] # TopicSentence
    /\ \A k \in (1..Len(Candidates)) \ TopicSentences : ~HasKeyword(Candidates[k])
    /\ TopicFirstAndHigh

\* the score the scoring loop gives a candidate sentence of the call
ScoreOf(sent) ==
    SentenceScore(Candidates, sent, sug.organism, sug.context_keywords)

\* the positions of the candidates whose score is above 0
Survivors == {k \in 1..Len(Candidates) : ScorePositive(ScoreOf(Candidates[k]))}

Suggested == sug.result.suggested_snippets

\* C14: a call that returns normally gives at most three suggestions, each a
\* candidate with a positive score, in non-increasing order of score, as many
\* as there are such candidates up to three, and no candidate left out scores
\* higher than one that was taken.
C14_TopThree ==
    (sug.done /\ ~sug.raised) =>
        LET cand  == Candidates
            score == SubSeq([k \in 1..Len(cand) |->
                                SentenceScore(cand, cand[k], sug.organism,
                                              sug.context_keywords)], 1, Len(cand))
            surv  == {k \in 1..Len(cand) : ScorePositive(score[k])}
            sn    == Suggested
            at(i) == IndexOf(cand, sn[i])
        IN  /\ Len(sn) <= 3
            /\ Len(sn) = Min(3, Cardinality(surv))
            /\ \A i \in 1..Len(sn) : \E k \in surv : cand[k] = sn[i]
            /\ \A i \in 1..(Len(sn) - 1) :
                  ~ScoreLess(score[at(i)], score[at(i + 1)])
            /\ \A k \in surv :
                  (\A i \in 1..Len(sn) : sn[i] # cand[k])
                  => \A i \in 1..Len(sn) : ~ScoreLess(score[at(i)], score[k])

\* a call with more than three scoring candidates whose best one is not the
\* first sentence: three suggestions came back, led by a later sentence
C14_Witness ==
    /\ sug.done /\ ~sug.raised
    /\ Cardinality(Survivors) > 3
    /\ Len(Suggested) = 3
    /\ Suggested[1] # Candidates[1]
    /\ ScoreLess(ScoreOf(Suggested[3]), ScoreOf(Suggested[1]))

\* C15: every suggestion of a result carries the confidence tier of its own
\* score: high from 5.0, medium from 2.0, low below.  The result holds one
\* confidence, so that is the tier each of its suggestions carries.
C15_OwnTier ==
    (sug.done /\ ~sug.raised /\ sug.result # NoSuggestion) =>
        LET cand == Candidates
        IN  \A i \in 1..Len(Suggested) :
               sug.result.confidence =
                   ConfidenceOf(SentenceScore(cand, Suggested[i], sug.organism,
                                              sug.context_keywords))

\* C16: when the validator reports the call's snippet invalid against the
\* fetched source text, none of the suggestions returned for it is identical
\* to that snippet.
C16_InvalidNotSuggested ==
    (sug.done /\ sug.result # NoSuggestion) =>
        \A i \in 1..Len(Suggested) :
            Suggested[i] = sug.current_snippet
            => validate_evidence_snippet(sug.current_snippet, sug.fetched)

\* no candidate of the call comes out of the scoring loop with a score above 0
NoneScoring ==
    \A k \in 1..Len(Candidates) :
        \/ ScoreRaises(Candidates[k], sug.organism)
        \/ ~ScorePositive(SentenceScore(Candidates, Candidates[k], sug.organism,
                                        sug.context_keywords))

\* C17: when no candidate sentence survives segmentation, filtering and
\* scoring (the source is empty, every sentence is excluded or out of the
\* length range, or none scores), the call returns the empty result and does
\* not raise, whatever the topic string, an empty or blank one included.
C17_EmptyNeverRaises ==
    (sug.done /\ NoneScoring) => (~sug.raised /\ sug.result = NoSuggestion)
-----------------------------------------------------------------------------
(* Evidence curation: C18 - C19 *)

\* the issue types the last audit reported
IssueTypes == {cur.issues[k].issue_type : k \in 1..Len(cur.issues)}

\* C18: whenever fetch_and_validate_evidence reports snippet_valid = true, its
\* suggested_snippet is None, with or without full-text fetching.
C18_ValidHasNoSuggestion ==
    (cur.done /\ cur.called /\ cur.validation.snippet_valid)
        => cur.validation.suggested_snippet = None

\* C19: whenever an evidence item is reported as ABSTRACT_FETCH_FAILED, no
\* snippet validation was performed for it and its snippet_valid is false.
C19_FetchFailedNotValidated ==
    (cur.kind = "audit" /\ "ABSTRACT_FETCH_FAILED" \in IssueTypes)
        => (cur.validated = <<>> /\ ~cur.validation.snippet_valid)

-----------------------------------------------------------------------------
(* Reference validation of a community file: C20 *)

\* the evidence items of the file, as _collect_evidence lists them
ValItems == _collect_evidence(val.data)

\* the entries of a list of the validator that belong to the item at path p
EntriesAt(list, p) == {k \in 1..Len(list) : list[k].path = p}

\* the outcomes the last validate_yaml_file call gave the item at path p
OutcomesAt(p) ==
    Cardinality(EntriesAt(val.v.warnings, p))
    + Cardinality(EntriesAt(val.v.errors, p))
    + Cardinality(EntriesAt(val.v.validated, p))

\* what the i-th evidence item holds under key
ItemValue(i, key) ==
    IF ValItems[i].data.kind = "dict" THEN Scalar(YGet(ValItems[i].data, key))
    ELSE None

\* the i-th evidence item cannot be checked: it has no reference or no
\* snippet, or no abstract came back for it
Unverifiable(i) ==
    \/ ~Truthy(ItemValue(i, "reference"))
    \/ ~Truthy(ItemValue(i, "snippet"))
    \/ ~Truthy(val.v.log[i].abstract)

\* the i-th item could be checked and its snippet is not in the fetched abstract
SnippetNotFound(i) ==
    /\ ~Unverifiable(i)
    /\ ~validate_evidence_snippet(ItemValue(i, "snippet"), val.v.log[i].abstract)

\* C20: validate_yaml_file gives every evidence item exactly one outcome - a
\* warning when the item cannot be checked (reference missing, snippet
\* missing, abstract not fetched), an error when its snippet is not found in
\* the fetched abstract, validated otherwise -, never ends in an exception on
\* an item's fetch failure, and returns true exactly when no item produced an
\* error.
C20_OneOutcomePerItem ==
    val.calls > 0 =>
        /\ val.returned
        /\ Len(val.v.log) = Len(ValItems)
        /\ \A i \in 1..Len(ValItems) :
              /\ OutcomesAt(ValItems[i].path) = 1
              /\ Unverifiable(i) <=> EntriesAt(val.v.warnings, ValItems[i].path) # {}
              /\ SnippetNotFound(i) <=> EntriesAt(val.v.errors, ValItems[i].path) # {}
        /\ val.result <=> ~\E i \in 1..Len(ValItems) : SnippetNotFound(i)

-----------------------------------------------------------------------------
(* The cache over time: C21 *)

\* every file of the cache directory is still there after the step, with the
\* content it had
EntriesKept ==
    \A f \in DOMAIN cache : f \in DOMAIN cache' /\ cache'[f] = cache[f]

\* a call of the step that found its cache file returns the abstract that the
\* file held before the step
LookupReturnsStored ==
    (last'.kind \in {"pmid", "doi"} /\ last'.hit) =>
        /\ last'.file \in DOMAIN cache
        /\ last'.result[1] = CachedAbstract(last'.kind, cache[last'.file])

\* C21: no fetch_paper call, in this process or a later one, overwrites,
\* modifies or deletes a cache entry once it is written, and every later
\* lookup of the entry returns the content first stored in it.
C21_EntriesPersist == [][EntriesKept /\ LookupReturnsStored]_vars

-----------------------------------------------------------------------------
(* The reference fixer over a file: C22 *)

\* the run rewrote the file: it holds, in yaml.dump's layout, the data with
\* every reported change applied, and the backup holds the file as it was
Rewritten ==
    /\ fx.disk[YamlPath(fx.name)]
         = Dumped(FixedData(safe_load(fx.start[YamlPath(fx.name)])))
    /\ fx.disk[YamlPath(fx.name)] # fx.start[YamlPath(fx.name)]
    /\ BackupPath(fx.name, ".yaml.bak3") \in DOMAIN fx.disk
    /\ fx.disk[BackupPath(fx.name, ".yaml.bak3")] = fx.start[YamlPath(fx.name)]

\* C22: a dry run of fix_yaml_file leaves the directory as it found it - the
\* file unchanged, no backup created - and reports the list of changes an
\* apply run over the same file reports; a run rewrites the file, after
\* moving it to the backup, exactly when dry_run is false and the list of
\* changes is not empty, and leaves the directory alone otherwise.
C22_DryRunKeepsFile ==
    fx.runs > 0 =>
        /\ fx.dry_run => fx.disk = fx.start
        /\ ~fx.raised =>
              fx.changes = fix_yaml_file(fx.start, fx.name, FALSE).changes
        /\ IF ~fx.raised /\ ~fx.dry_run /\ fx.changes # <<>>
           THEN Rewritten ELSE fx.disk = fx.start

-----------------------------------------------------------------------------
(* The snippet fixer over a file: C23, C26, C28 *)

\* the snippet the evidence item at a position holds in a directory
SnippetAt(disk, pos) ==
    safe_load(disk[YamlPath(wf.p.name)])[pos[1]][pos[2]].evidence[pos[3]].snippet

\* the positions of the evidence items of the file
PositionsIn(data) ==
    UNION {UNION {{<<sec, e, i>> : i \in 1..Len(data[sec][e].evidence)} :
                     e \in 1..Len(data[sec])} : sec \in SectionNames}
Positions == PositionsIn(safe_load(wf.start[YamlPath(wf.p.name)]))

\* interactive_fix_workflow was called and has returned
RunReturned == wf.runs > 0 /\ wf.pc = "idle" /\ ~wf.raised

\* C23: in a run with auto_approve and without relaxed, every item whose
\* suggestion has confidence low is counted as skipped and the snippet it has
\* in the file is the one it had when the run began; every other item with a
\* suggestion has the first suggestion applied.
C23_LowNeverApplied ==
    (RunReturned /\ wf.p.auto_approve /\ ~wf.p.relaxed) =>
        \A k \in 1..Len(wf.log) :
            IF wf.log[k].confidence = "low"
            THEN /\ wf.log[k].outcome = "skipped"
                 /\ SnippetAt(wf.disk, wf.log[k].pos) = SnippetAt(wf.start, wf.log[k].pos)
            ELSE wf.log[k].confidence # "none" =>
                    /\ wf.log[k].outcome \in {"applied", "failed"}
                    /\ wf.log[k].selected = wf.log[k].suggested[1]

\* the directory before the k-th item of the log was processed
Before(k) == IF k = 1 THEN wf.copied ELSE wf.log[k - 1].disk

\* the evidence items whose snippet differs between two directories
ChangedPositions(before, after) ==
    {pos \in Positions : SnippetAt(before, pos) # SnippetAt(after, pos)}

\* C26: each item the workflow applies a suggestion for has its own snippet
\* replaced by the selected suggestion, and the snippet of no other evidence
\* item of the file is modified by it.
C26_OwnSnippetOnly ==
    \A k \in 1..Len(wf.log) :
        wf.log[k].outcome = "applied" =>
            /\ SnippetAt(wf.log[k].disk, wf.log[k].pos) = wf.log[k].selected
            /\ ChangedPositions(Before(k), wf.log[k].disk) \subseteq {wf.log[k].pos}

\* the backup of the run's file in a directory holds the file as the run found it
BackupHoldsStart(disk) ==
    /\ BackupPath(wf.p.name, ".yaml.bak_intelligent") \in DOMAIN disk
    /\ disk[BackupPath(wf.p.name, ".yaml.bak_intelligent")]
         = wf.start[YamlPath(wf.p.name)]

\* C28: at every point of a run of the snippet fixer, a file that differs from
\* what it was when the run began has a backup that holds what it was; and
\* when interactive_fix_workflow returns, the backup exists exactly when at
\* least one fix was applied.
C28_BackupKept ==
    /\ (wf.runs > 0 \/ wf.pc # "idle") =>
          (wf.disk[YamlPath(wf.p.name)] # wf.start[YamlPath(wf.p.name)]
              => BackupHoldsStart(wf.disk))
    /\ RunReturned =>
          ((BackupPath(wf.p.name, ".yaml.bak_intelligent") \in DOMAIN wf.disk)
              <=> wf.applied > 0)

-----------------------------------------------------------------------------
(* Suggestions as quotations of their source: C24 *)

\* C24: every snippet the last suggest call returned is reported valid by
\* validate_evidence_snippet against the source text it was extracted from.
C24_SuggestionsQuoteSource ==
    (sug.done /\ ~sug.raised /\ sug.fetched # None) =>
        \A i \in 1..Len(Suggested) :
            validate_evidence_snippet(Suggested[i], sug.fetched)

-----------------------------------------------------------------------------
(* Blank snippets: C25 *)

\* C25: a snippet that is empty after whitespace normalization is never
\* reported valid, whatever the source text.
C25_BlankNeverValid ==
    (verdict # "none" /\ snippet # None /\ JoinSplit(snippet) = <<>>)
        => verdict = "invalid"

-----------------------------------------------------------------------------
(* Cache file names of DOIs: C27 *)

\* the references called so far that fetch_paper treats as DOIs
DoiCalls == {r \in DOMAIN keyOf : ReferenceKind(r) = "doi"}

\* C27: two calls for distinct DOIs never use the same metadata cache file, so
\* that a call that finds its file in the cache is given metadata that was
\* stored for its own DOI.
C27_DistinctDoiDistinctFile ==
    \A r1, r2 \in DoiCalls :
        CleanDoi(r1) # CleanDoi(r2) => keyOf[r1] # keyOf[r2]

-----------------------------------------------------------------------------
(* The curator's counters: C29 *)

\* C29: after any sequence of _audit_evidence_item calls, one that ended in
\* the TypeError of a null reference included, total_validated is the sum of
\* abstract_fetch_failed, snippet_not_in_source and valid_evidence.
C29_StatsPartition ==
    cur.stats.total_validated =
        cur.stats.abstract_fetch_failed + cur.stats.snippet_not_in_source
            + cur.stats.valid_evidence

\* Three audits: one item was valid, one was counted as a fetch failure or as
\* not in its source, and the last call raised on a null reference.
C29_Witness ==
    /\ cur.audits = 3 /\ cur.exception = "TypeError"
    /\ cur.stats.total_validated = 2
    /\ cur.stats.valid_evidence = 1
    /\ cur.stats.abstract_fetch_failed + cur.stats.snippet_not_in_source = 1

-----------------------------------------------------------------------------
(* The batch fixer over a file list: C30 *)

\* the k-th entry of the results is for the k-th file of the list and tells
\* what happened to it
EntryFor(k) ==
    /\ bat.results[k].file = bat.files[k]
    /\ bat.results[k].status \in {"not_found", "processed", "error"}
    /\ bat.results[k].status = "not_found"
          <=> YamlPath(bat.files[k]) \notin DOMAIN bat.start

\* C30: whatever happens to the files, whether one is missing, processed or
\* its workflow raises an exception, the result list of a process_files_batch
\* call has one entry per file of the list, in list order, when the call ends.
C30_OneResultPerFile ==
    bat.done =>
        /\ Len(bat.results) = Len(bat.files)
        /\ \A k \in 1..Len(bat.results) : EntryFor(k)

=============================================================================
